---- MODULE Spec2Model ----
(***************************************************************************)
(* Model of the prediction-market application:                             *)
(*   - admin-auto-discover  (src/src/app/api/admin-auto-discover/route.ts) *)
(*   - auto-preview-batch-distribution                                     *)
(*                (src/src/app/api/auto-preview-batch-distribution/route.ts)*)
(*   - market/analytics and market/current-price                           *)
(*                (src/src/app/api/market/analytics/route.ts)               *)
(*   - the event handlers of the subgraph                                  *)
(*                (src/policast/src/policast-market-v-3.ts)                 *)
(*                                                                         *)
(* Spec: the routes.  A behaviour handles one request to admin-auto-       *)
(* discover or to the preview, or up to MaxRequests requests in a row to   *)
(* one of the market routes, whose caches live from request to request.    *)
(* Every `await` of a handler is a step of its own; the contract behind    *)
(* publicClient is the environment: each read is answered with contract    *)
(* data or fails.                                                          *)
(* AggregatorSpec: calculateMarketAnalytics applied to lists of events.    *)
(* MapperSpec: the handlers of the subgraph applied to sequences of logs.  *)
(*                                                                         *)
(* Strings the code transforms (addresses, decimal amounts, cache keys)    *)
(* are sequences of one-character strings, so that toLowerCase, toString   *)
(* and startsWith are computed character by character.  The description    *)
(* field of a withdrawal candidate (built from the market question) is not *)
(* modelled.                                                               *)
(*                                                                         *)
(* In the market routes the clock is in seconds; it stands still while a   *)
(* request is handled and moves between requests.  All Math.random() calls *)
(* of one fallback or mock payload return the same draw.  The `if          *)
(* (log.args)` guards (logs are decoded) and the catch of the analytics    *)
(* GET, which no modelled step can raise into, are left out.               *)
(***************************************************************************)
EXTENDS Integers, Sequences, FiniteSets, TLC

VARIABLES
    request,          \* the parsed JSON body and the route it was sent to
    pc,               \* position of the handler
    response,         \* the NextResponse returned, NoResponse before
    calls,            \* every upstream call made so far, with its answer
    failures,         \* number of upstream calls that threw so far
    (* discoverAdminWithdrawals / checkMarketBatchForAdmin locals *)
    maxMarketId, startId, endId, marketId,
    withdrawals,      \* discoverAdminWithdrawals.withdrawals
    batchWithdrawals, \* checkMarketBatchForAdmin.withdrawals
    mi,               \* the normalised marketInfo of the current market
    isCreator,
    adminWithdrawals, \* POST.adminWithdrawals, the value discover returned
    outage,           \* the RPC endpoint rejects every getMarketInfo of the scan
    (* preview POST locals *)
    marketIdNum, tradeEvents, freeTokenEvents, participants,
    (* the market routes: analytics and current-price *)
    now,              \* Date.now(), in seconds
    handled,          \* number of requests answered before the current one
    analyticsCache,   \* analyticsCache: cache key -> {data, lastUpdated}
    priceCache,       \* priceCache: marketId -> {data, lastUpdated}
    storedAt,         \* per (marketId, timeRange), or per marketId of the price
                      \* route: the request that last stored a payload, when, and
                      \* the payload
    postedAt,         \* per marketId: the last invalidation POST accepted for it
    shareLogs,        \* getMarketEvents.shareLogs still to be processed
    events,           \* getMarketEvents.events
    analytics,        \* GET.analytics, the value calculateMarketAnalytics returned
    quote,            \* getCurrentMarketPrice: prices computed before the awaits
    (* the event-to-entity mapper *)
    chain,            \* the logs the indexer may be given
    store,            \* the entity tables: (entity type, id) -> row
    handledEvents,    \* the events handled so far, in order
    saved,            \* the id each of them was saved under
    (* two GET requests handled at the same time *)
    racers,           \* per request: position, computed analytics, response
    (* ClaimWinningsButton *)
    hasAlreadyClaimed,\* the useState flag
    txStatus,         \* the claimWinnings transaction the hooks follow
    claimedOnChain,   \* the contract has paid this user's winnings
    writes,           \* number of claimWinnings writes issued
    lastError         \* the error the last writeContract threw, NoError if none

scanVars == <<maxMarketId, startId, endId, marketId, withdrawals,
              batchWithdrawals, mi, isCreator, adminWithdrawals, outage>>
previewVars == <<marketIdNum, tradeEvents, freeTokenEvents, participants>>
marketVars == <<now, handled, analyticsCache, priceCache, storedAt, postedAt,
                shareLogs, events, analytics, quote>>
mapperVars == <<chain, store, handledEvents, saved>>
buttonVars == <<hasAlreadyClaimed, txStatus, claimedOnChain, writes, lastError>>
vars == <<request, pc, response, calls, failures, scanVars, previewVars,
          marketVars, mapperVars, racers, buttonVars>>

-----------------------------------------------------------------------------
(* Bounds of the exploration *)

\* contracts with at most RichMarkets markets are explored with every
\* combination of per-market answers; larger ones with the WideChain fixture
RichMarkets == 1
\* largest marketCount explored (two batches: ids 0..9 and 10)
MaxMarkets == 11
\* upstream calls that may throw during one behaviour
MaxFailures == 1
\* events a getLogs call may return
MaxTradeEvents == 1
MaxFreeTokenEvents == 1
\* SharesPurchased logs a getLogs call may return
MaxShareLogs == 1
\* requests handled in a row by the analytics or the current-price route
MaxRequests == 2
\* trade events given to the aggregator on its own
MaxEvents == 3
\* events given to the mapper in a row
MaxHandled == 2
\* GET requests for one cache key handled at the same time
MaxRacers == 2
\* claimWinnings writes of one ClaimWinningsButton
MaxWrites == 5

-----------------------------------------------------------------------------
(* Strings *)

Min(a, b) == IF a < b THEN a ELSE b

LowerChar(c) ==
    CASE c = "A" -> "a" [] c = "B" -> "b" [] c = "C" -> "c"
      [] c = "D" -> "d" [] c = "E" -> "e" [] c = "F" -> "f"
      [] OTHER -> c

\* String.prototype.toLowerCase
ToLowerCase(s) == [i \in DOMAIN s |-> LowerChar(s[i])]

DigitChar(d) == <<"0", "1", "2", "3", "4", "5", "6", "7", "8", "9">>[d + 1]

RECURSIVE NatToString(_)
NatToString(n) ==
    IF n < 10 THEN <<DigitChar(n)>>
    ELSE Append(NatToString(n \div 10), DigitChar(n % 10))

\* BigInt.prototype.toString
BigIntToString(n) == IF n < 0 THEN <<"-">> \o NatToString(-n) ELSE NatToString(n)

-----------------------------------------------------------------------------
(* The contract: addresses and the answers of its view functions *)

ZeroAddress == <<"0", "0">>
UserA == <<"A", "b">>          \* the requesting user, checksummed
UserALower == <<"a", "b">>     \* the same address in lower case
UserB == <<"c", "D">>          \* another account

NoAddress == <<>>              \* userAddress absent from the body (falsy)

Thrown(name) == [ok |-> FALSE, error |-> name]

\* getMarketInfo: [5] resolved, [10] creator
RichMarketInfo == [ok : {TRUE}, creator : {UserALower, UserB}, resolved : BOOLEAN]
\* getMarketFinancials: [0] adminInitialLiquidity, [4] adminLiquidityClaimed
RichFinancials ==
    { [ok |-> TRUE, adminInitialLiquidity |-> 0, adminLiquidityClaimed |-> FALSE],
      [ok |-> TRUE, adminInitialLiquidity |-> 7, adminLiquidityClaimed |-> FALSE],
      [ok |-> TRUE, adminInitialLiquidity |-> 7, adminLiquidityClaimed |-> TRUE] }
\* getFreeMarketInfo: [0] maxParticipants, [1] tokensPerParticipant,
\* [2] currentParticipants, [4] prizePoolWithdrawn; it reverts for a market
\* that is not a free market
FreeInfo(maxP, tpp, cur, wd) ==
    [ok |-> TRUE, maxParticipants |-> maxP, tokensPerParticipant |-> tpp,
     currentParticipants |-> cur, prizePoolWithdrawn |-> wd]
NotFreeMarket == Thrown("NotFreeMarket")
RichFreeInfo ==
    { NotFreeMarket,
      FreeInfo(100, 5, 40, FALSE), FreeInfo(100, 5, 40, TRUE),
      FreeInfo(40, 5, 40, FALSE), FreeInfo(40, 5, 100, FALSE) }
\* getLPInfo: [1] rewardsClaimed, [2] estimatedRewards
RichLPInfo ==
    { [ok |-> TRUE, rewardsClaimed |-> FALSE, estimatedRewards |-> 0],
      [ok |-> TRUE, rewardsClaimed |-> FALSE, estimatedRewards |-> 3],
      [ok |-> TRUE, rewardsClaimed |-> TRUE, estimatedRewards |-> 3] }

\* The fixture explored for contracts with more than RichMarkets markets
WideMarketInfo(m) ==
    [ok |-> TRUE, creator |-> IF m % 2 = 0 THEN UserALower ELSE UserB,
     resolved |-> (m % 3 = 0)]
WideFinancials(m) ==
    [ok |-> TRUE, adminInitialLiquidity |-> m + 1,
     adminLiquidityClaimed |-> (m % 4 = 2)]
WideFreeInfo(m) ==
    IF m % 3 = 0 THEN FreeInfo(10 + m, 2, m, FALSE) ELSE NotFreeMarket
WideLPInfo(m) ==
    [ok |-> TRUE, rewardsClaimed |-> (m % 5 = 1), estimatedRewards |-> m % 3]

MarketInfoAnswers(n, m) == IF n <= RichMarkets THEN RichMarketInfo ELSE {WideMarketInfo(m)}
FinancialsAnswers(n, m) == IF n <= RichMarkets THEN RichFinancials ELSE {WideFinancials(m)}
FreeInfoAnswers(n, m) == IF n <= RichMarkets THEN RichFreeInfo ELSE {WideFreeInfo(m)}
LPInfoAnswers(n, m) == IF n <= RichMarkets THEN RichLPInfo ELSE {WideLPInfo(m)}

\* the errors a failing call throws
MarketInfoErrors == {Thrown("InvalidMarket"), Thrown("HttpRequestError")}
TransportError == Thrown("HttpRequestError")

CanFail == failures < MaxFailures

Call(fn, m, answer) == [fn |-> fn, marketId |-> m, answer |-> answer]

\* the answers already given to calls of fn for market m
Answered(fn, m) ==
    {calls[i].answer : i \in {j \in DOMAIN calls : calls[j].fn = fn /\ calls[j].marketId = m}}

NoResponse == [status |-> 0]
NoError == [message |-> <<>>]
NoMarket == [ok |-> FALSE, error |-> "none"]

\* JSON values of a request body field
JUndefined == [kind |-> "undefined"]
JNumber(n) == [kind |-> "number", value |-> n]
JString(chars) == [kind |-> "string", chars |-> chars]

DiscoverRequests ==
    [route : {"admin-auto-discover"}, userAddress : {NoAddress, UserA, UserB}]
PreviewRequests ==
    [route : {"auto-preview-batch-distribution"},
     marketId : {JUndefined, JNumber(-1), JNumber(0), JNumber(1),
                 JString(<<"0">>), JString(<<"x">>)}]

Requests == DiscoverRequests \cup PreviewRequests

-----------------------------------------------------------------------------
(* admin-auto-discover: discoverAdminWithdrawals and checkMarketBatchForAdmin *)

batchSize == 10

BatchEndUnclamped(s, n) == s + batchSize

\* a scan that reads every remaining market in one batch
BatchEndAtCount(s, n) == n

\* endId of the batch that starts at s
BatchEnd(s, n) == Min(s + batchSize, n)

AfterMarketErrorBreak(m, e) == e

\* a scan that passes over the market after one whose read failed
AfterMarketErrorSkipsNext(m, e) == m + 2

\* the market checked after the getMarketInfo read of market m threw
AfterMarketError(m, e) == m + 1

IsCreatorExact(creator, userAddress) == creator = userAddress

IsCreatorOf(creator, userAddress) == ToLowerCase(creator) = ToLowerCase(userAddress)

AdminLiquidityDue(mf) == ~mf.adminLiquidityClaimed /\ mf.adminInitialLiquidity > 0

LPRewardsDueIgnoringClaimed(li) == li.estimatedRewards > 0

LPRewardsDue(li) == ~li.rewardsClaimed /\ li.estimatedRewards > 0

\* getUnusedPrizePool, given the answer of its getFreeMarketInfo read
UnusedPrizePool(fm) ==
    IF ~fm.ok THEN 0
    ELSE IF fm.prizePoolWithdrawn THEN 0
    ELSE LET maxPossiblePrizePool == fm.maxParticipants * fm.tokensPerParticipant
             actualPrizePool == fm.currentParticipants * fm.tokensPerParticipant
             unusedPrizePool == maxPossiblePrizePool - actualPrizePool
         IN  IF unusedPrizePool > 0 THEN unusedPrizePool ELSE 0

WithdrawalMistyped(m, amount, type) ==
    [marketId |-> m, amount |-> amount, type |-> "adminLiquidity"]

Withdrawal(m, amount, type) == [marketId |-> m, amount |-> amount, type |-> type]

\* POST, up to the call of discoverAdminWithdrawals
AdminDiscoverPOST ==
    /\ pc = "POST" /\ request.route = "admin-auto-discover"
    /\ IF request.userAddress = NoAddress
       THEN /\ response' = [status |-> 400, error |-> "User address is required"]
            /\ pc' = "done"
       ELSE /\ pc' = "marketCount"
            /\ UNCHANGED response
    /\ UNCHANGED <<request, calls, failures, scanVars, previewVars>>
    /\ UNCHANGED marketVars
    /\ UNCHANGED <<mapperVars, racers, buttonVars>>

\* the marketCount read; a throw is caught by discoverAdminWithdrawals, which
\* then returns []
ReadMarketCount ==
    /\ pc = "marketCount"
    /\ \E answer \in [ok : {TRUE}, count : 0..MaxMarkets]
                     \cup {a \in {TransportError} : CanFail} :
         /\ calls' = Append(calls, Call("marketCount", -1, answer))
         /\ IF ~answer.ok
            THEN /\ failures' = failures + 1
                 /\ adminWithdrawals' = <<>>
                 /\ pc' = "respond"
                 /\ UNCHANGED <<maxMarketId, startId>>
            ELSE /\ UNCHANGED failures
                 /\ maxMarketId' = answer.count
                 /\ IF answer.count = 0
                    THEN /\ adminWithdrawals' = <<>>
                         /\ pc' = "respond"
                         /\ UNCHANGED startId
                    ELSE /\ startId' = 0
                         /\ pc' = "batch"
                         /\ UNCHANGED adminWithdrawals
    /\ UNCHANGED <<request, response, endId, marketId, withdrawals,
                   batchWithdrawals, mi, isCreator, previewVars, outage>>
    /\ UNCHANGED marketVars
    /\ UNCHANGED <<mapperVars, racers, buttonVars>>

\* head of the batch loop: the next batch is started, or the scan returns
NextBatch ==
    /\ pc = "batch"
    /\ IF startId < maxMarketId
       THEN /\ endId' = BatchEnd(startId, maxMarketId)
            /\ marketId' = startId
            /\ batchWithdrawals' = <<>>
            /\ pc' = "getMarketInfo"
            /\ UNCHANGED adminWithdrawals
       ELSE /\ adminWithdrawals' = withdrawals
            /\ pc' = "respond"
            /\ UNCHANGED <<endId, marketId, batchWithdrawals>>
    /\ UNCHANGED <<request, response, calls, failures, maxMarketId, startId,
                   withdrawals, mi, isCreator, previewVars, outage>>
    /\ UNCHANGED marketVars
    /\ UNCHANGED <<mapperVars, racers, buttonVars>>

\* head of the market loop of a batch: the getMarketInfo read of the next
\* market
CheckMarket ==
    /\ pc = "getMarketInfo" /\ marketId < endId
    /\ \E answer \in IF outage THEN {TransportError}
                     ELSE MarketInfoAnswers(maxMarketId, marketId)
                            \cup {a \in MarketInfoErrors : CanFail} :
         /\ calls' = Append(calls, Call("getMarketInfo", marketId, answer))
         /\ IF ~answer.ok
            THEN /\ failures' = failures + 1
                 /\ marketId' = AfterMarketError(marketId, endId)
                 /\ UNCHANGED <<mi, isCreator, pc>>
            ELSE /\ mi' = answer
                 /\ isCreator' = IsCreatorOf(answer.creator, request.userAddress)
                 /\ pc' = IF isCreator' THEN "getMarketFinancials" ELSE "getLPInfo"
                 /\ UNCHANGED <<failures, marketId>>
    /\ UNCHANGED <<request, response, maxMarketId, startId, endId, withdrawals,
                   batchWithdrawals, adminWithdrawals, previewVars, outage>>
    /\ UNCHANGED marketVars
    /\ UNCHANGED <<mapperVars, racers, buttonVars>>

\* end of the market loop: the batch returns its candidates, which
\* discoverAdminWithdrawals pushes onto its own list
BatchReturn ==
    /\ pc = "getMarketInfo" /\ marketId >= endId
    /\ withdrawals' = withdrawals \o batchWithdrawals
    /\ batchWithdrawals' = <<>>
    /\ pc' = "delay"
    /\ UNCHANGED <<request, response, calls, failures, maxMarketId, startId,
                   endId, marketId, mi, isCreator, adminWithdrawals, previewVars, outage>>
    /\ UNCHANGED marketVars
    /\ UNCHANGED <<mapperVars, racers, buttonVars>>

\* the 50 ms pause after a batch, then the loop increment
Delay ==
    /\ pc = "delay"
    /\ startId' = startId + batchSize
    /\ pc' = "batch"
    /\ UNCHANGED <<request, response, calls, failures, maxMarketId, endId,
                   marketId, withdrawals, batchWithdrawals, mi, isCreator,
                   adminWithdrawals, previewVars, outage>>
    /\ UNCHANGED marketVars
    /\ UNCHANGED <<mapperVars, racers, buttonVars>>

\* 1. admin liquidity (creator only)
ReadMarketFinancials ==
    /\ pc = "getMarketFinancials"
    /\ \E answer \in FinancialsAnswers(maxMarketId, marketId)
                     \cup {a \in {TransportError} : CanFail} :
         /\ calls' = Append(calls, Call("getMarketFinancials", marketId, answer))
         /\ failures' = IF answer.ok THEN failures ELSE failures + 1
         /\ batchWithdrawals' =
              IF answer.ok /\ AdminLiquidityDue(answer)
              THEN Append(batchWithdrawals,
                          Withdrawal(marketId, answer.adminInitialLiquidity, "adminLiquidity"))
              ELSE batchWithdrawals
    /\ pc' = "checkIfFreeMarket"
    /\ UNCHANGED <<request, response, maxMarketId, startId, endId, marketId,
                   withdrawals, mi, isCreator, adminWithdrawals, previewVars, outage>>
    /\ UNCHANGED marketVars
    /\ UNCHANGED <<mapperVars, racers, buttonVars>>
PrizePoolCheckedUnresolved(isFreeMarket, resolved) == isFreeMarket

\* a scan that asks for the unused prize pool of every resolved market
PrizePoolCheckedOfResolved(isFreeMarket, resolved) == resolved

\* whether getUnusedPrizePool is called for the current market
PrizePoolChecked(isFreeMarket, resolved) == isFreeMarket /\ resolved

\* 2. checkIfFreeMarket: a market is a free market when getFreeMarketInfo
\* answers, and not when the call throws
CheckIfFreeMarket ==
    /\ pc = "checkIfFreeMarket"
    /\ \E answer \in FreeInfoAnswers(maxMarketId, marketId)
                     \cup {a \in {TransportError} : CanFail} :
         /\ calls' = Append(calls, Call("getFreeMarketInfo", marketId, answer))
         /\ failures' = IF answer = TransportError THEN failures + 1 ELSE failures
         /\ pc' = IF PrizePoolChecked(answer.ok, mi.resolved)
                  THEN "getUnusedPrizePool" ELSE "getLPInfo"
    /\ UNCHANGED <<request, response, scanVars, previewVars>>
    /\ UNCHANGED marketVars
    /\ UNCHANGED <<mapperVars, racers, buttonVars>>

\* getUnusedPrizePool reads getFreeMarketInfo a second time: the contract
\* gives the answer it gave to checkIfFreeMarket, unless the call fails
GetUnusedPrizePool ==
    /\ pc = "getUnusedPrizePool"
    /\ \E answer \in {a \in Answered("getFreeMarketInfo", marketId) : a.ok}
                     \cup {a \in {TransportError} : CanFail} :
         /\ calls' = Append(calls, Call("getFreeMarketInfo", marketId, answer))
         /\ failures' = IF answer.ok THEN failures ELSE failures + 1
         /\ batchWithdrawals' =
              IF UnusedPrizePool(answer) > 0
              THEN Append(batchWithdrawals,
                          Withdrawal(marketId, UnusedPrizePool(answer), "prizePool"))
              ELSE batchWithdrawals
    /\ pc' = "getLPInfo"
    /\ UNCHANGED <<request, response, maxMarketId, startId, endId, marketId,
                   withdrawals, mi, isCreator, adminWithdrawals, previewVars, outage>>
    /\ UNCHANGED marketVars
    /\ UNCHANGED <<mapperVars, racers, buttonVars>>

\* 3. LP rewards (any user), then the next market of the batch
ReadLPInfo ==
    /\ pc = "getLPInfo"
    /\ \E answer \in LPInfoAnswers(maxMarketId, marketId)
                     \cup {a \in {TransportError} : CanFail} :
         /\ calls' = Append(calls, Call("getLPInfo", marketId, answer))
         /\ failures' = IF answer.ok THEN failures ELSE failures + 1
         /\ batchWithdrawals' =
              IF answer.ok /\ LPRewardsDue(answer)
              THEN Append(batchWithdrawals,
                          Withdrawal(marketId, answer.estimatedRewards, "lpRewards"))
              ELSE batchWithdrawals
    /\ marketId' = marketId + 1
    /\ pc' = "getMarketInfo"
    /\ UNCHANGED <<request, response, maxMarketId, startId, endId,
                   withdrawals, mi, isCreator, adminWithdrawals, previewVars, outage>>
    /\ UNCHANGED marketVars
    /\ UNCHANGED <<mapperVars, racers, buttonVars>>

FilterTypeLPRewards(ws, t) == SelectSeq(ws, LAMBDA w : w.type = "lpRewards")

\* Array.prototype.filter on the type of a candidate
FilterType(ws, t) == SelectSeq(ws, LAMBDA w : w.type = t)

\* ws.reduce((sum, w) => sum + w.amount, 0n)
RECURSIVE SumAmounts(_)
SumAmounts(ws) ==
    IF ws = <<>> THEN 0 ELSE SumAmounts(SubSeq(ws, 1, Len(ws) - 1)) + ws[Len(ws)].amount

\* ws.map((w) => ({...w, amount: w.amount.toString()}))
Serialize(ws) ==
    [i \in DOMAIN ws |-> [ws[i] EXCEPT !.amount = BigIntToString(ws[i].amount)]]

\* grouping, totals and serialisation of POST
DiscoverPayload(found) ==
    LET groupedWithdrawals ==
            [adminLiquidity |-> FilterType(found, "adminLiquidity"),
             prizePool |-> FilterType(found, "prizePool"),
             lpRewards |-> FilterType(found, "lpRewards")]
        totals ==
            [adminLiquidity |-> SumAmounts(groupedWithdrawals.adminLiquidity),
             prizePool |-> SumAmounts(groupedWithdrawals.prizePool),
             lpRewards |-> SumAmounts(groupedWithdrawals.lpRewards),
             total |-> SumAmounts(found)]
    IN  [status |-> 200,
         withdrawals |->
            [adminLiquidity |-> Serialize(groupedWithdrawals.adminLiquidity),
             prizePool |-> Serialize(groupedWithdrawals.prizePool),
             lpRewards |-> Serialize(groupedWithdrawals.lpRewards)],
         totals |->
            [adminLiquidity |-> BigIntToString(totals.adminLiquidity),
             prizePool |-> BigIntToString(totals.prizePool),
             lpRewards |-> BigIntToString(totals.lpRewards),
             total |-> BigIntToString(totals.total)],
         totalCount |-> Len(found)]

AdminDiscoverRespond ==
    /\ pc = "respond"
    /\ response' = DiscoverPayload(adminWithdrawals)
    /\ pc' = "done"
    /\ UNCHANGED <<request, calls, failures, scanVars, previewVars>>
    /\ UNCHANGED marketVars
    /\ UNCHANGED <<mapperVars, racers, buttonVars>>

-----------------------------------------------------------------------------
(* auto-preview-batch-distribution: POST *)

\* JavaScript truthiness of a body field
Truthy(v) ==
    CASE v.kind = "undefined" -> FALSE
      [] v.kind = "null" -> FALSE
      [] v.kind = "number" -> v.value # 0
      [] v.kind = "string" -> v.chars # <<>>

DigitValue(c) ==
    CASE c = "0" -> 0 [] c = "1" -> 1 [] c = "2" -> 2 [] c = "3" -> 3 [] c = "4" -> 4
      [] c = "5" -> 5 [] c = "6" -> 6 [] c = "7" -> 7 [] c = "8" -> 8 [] c = "9" -> 9
      [] OTHER -> -1

NaN == [nan |-> TRUE, value |-> 0]
Num(n) == [nan |-> FALSE, value |-> n]

\* value of the longest prefix of digits of chars, NaN when it is empty
RECURSIVE ParseDigits(_, _, _)
ParseDigits(chars, i, acc) ==
    IF i > Len(chars) \/ DigitValue(chars[i]) < 0
    THEN (IF i = 1 THEN NaN ELSE Num(acc))
    ELSE ParseDigits(chars, i + 1, acc * 10 + DigitValue(chars[i]))

\* parseInt of a string
ParseInt(chars) ==
    IF chars # <<>> /\ chars[1] = "-"
    THEN LET r == ParseDigits(Tail(chars), 1, 0)
         IN  IF r.nan THEN NaN ELSE Num(-r.value)
    ELSE ParseDigits(chars, 1, 0)

\* marketId.toString()
ToStringOf(v) == IF v.kind = "number" THEN BigIntToString(v.value) ELSE v.chars

PreviewAddresses == {ZeroAddress, UserA, UserALower, UserB}
TradeExecuted == [buyer : PreviewAddresses, seller : PreviewAddresses]
FreeTokensClaimed == [user : PreviewAddresses]

SeqsUpTo(S, n) == UNION {[1..k -> S] : k \in 0..n}

Range(f) == {f[i] : i \in DOMAIN f}

AddParticipantCaseSensitive(set, a) ==
    IF a # NoAddress /\ a # ZeroAddress /\ a \notin Range(set)
    THEN Append(set, a)
    ELSE set

\* if (a && a !== ZERO) participantSet.add(a.toLowerCase()), the set kept
\* in insertion order
AddParticipant(set, a) ==
    IF a # NoAddress /\ a # ZeroAddress /\ ToLowerCase(a) \notin Range(set)
    THEN Append(set, ToLowerCase(a))
    ELSE set

RECURSIVE AddTraders(_, _)
AddTraders(set, logs) ==
    IF logs = <<>> THEN set
    ELSE AddTraders(AddParticipant(AddParticipant(set, Head(logs).buyer),
                                   Head(logs).seller),
                    Tail(logs))

RECURSIVE AddClaimers(_, _)
AddClaimers(set, logs) ==
    IF logs = <<>> THEN set
    ELSE AddClaimers(AddParticipant(set, Head(logs).user), Tail(logs))

\* Array.from(participantSet) after both loops
Participants(trades, claims) == AddClaimers(AddTraders(<<>>, trades), claims)

\* A uint256 amount of wei is kept as count * 10^15 + dust, with dust far
\* below 10^15: UnitScale counts are 1e18 wei
UnitScale == 1000
Amount(count, dust) == [count |-> count, dust |-> dust]
WinAmounts == {Amount(1000, 0), Amount(1500, 0), Amount(1000, 1)}

\* the distance between neighbouring doubles around count * 10^15: 1 below
\* 2^53 and 2^(e-52) from 2^e on (2^53 = 9.007e15, ..., 2^61 = 2.305e18)
Ulp(count) ==
    IF count < 10 THEN 1 ELSE IF count < 19 THEN 2 ELSE IF count < 37 THEN 4
    ELSE IF count < 73 THEN 8 ELSE IF count < 145 THEN 16
    ELSE IF count < 289 THEN 32 ELSE IF count < 577 THEN 64
    ELSE IF count < 1153 THEN 128 ELSE IF count < 2306 THEN 256 ELSE 512

\* Number(amount): the double nearest to the integer, ties to the even one.
\* count * 10^15 is a multiple of 2^15, hence an even multiple of Ulp(count),
\* so only the dust is rounded.
NumberOf(amount) ==
    LET u == Ulp(amount.count)
        r == amount.dust % u
        below == amount.dust - r
    IN  Amount(amount.count,
               IF 2 * r < u THEN below
               ELSE IF 2 * r > u THEN below + u
               ELSE IF (below \div u) % 2 = 0 THEN below ELSE below + u)

\* digits of a fraction of three decimals, without its trailing zeros
FractionDigits(f) ==
    IF f = 0 THEN <<>>
    ELSE IF f % 100 = 0 THEN <<DigitChar(f \div 100)>>
    ELSE IF f % 10 = 0 THEN <<DigitChar(f \div 100), DigitChar((f \div 10) % 10)>>
    ELSE <<DigitChar(f \div 100), DigitChar((f \div 10) % 10), DigitChar(f % 10)>>

\* (x / 1e18).toString() of a double x that is a whole number of counts: the
\* quotient is the double nearest to count / 1000, which prints as that
\* decimal. Doubles with dust left are outside the amounts explored.
FormatNumber(x) ==
    CASE x.dust = 0 ->
        IF x.count % UnitScale = 0 THEN NatToString(x.count \div UnitScale)
        ELSE NatToString(x.count \div UnitScale) \o <<".">>
                \o FractionDigits(x.count % UnitScale)

\* (Number(amount) / 1e18).toString()
FormatAmount(amount) == FormatNumber(NumberOf(amount))

EmptyPreview(message) ==
    [status |-> 200, recipients |-> <<>>, amounts |-> <<>>,
     totalParticipants |-> 0, eligibleCount |-> 0, message |-> message]

ServerError == [status |-> 500, error |-> "Failed to auto-preview distribution"]

\* body validation, up to the getMarketInfo read
PreviewPOST ==
    /\ pc = "POST" /\ request.route = "auto-preview-batch-distribution"
    /\ IF ~Truthy(request.marketId)
       THEN /\ response' = [status |-> 400, error |-> "Market ID is required"]
            /\ pc' = "done"
            /\ UNCHANGED marketIdNum
       ELSE LET parsed == ParseInt(ToStringOf(request.marketId))
            IN  IF parsed.nan \/ parsed.value < 0
                THEN /\ response' = [status |-> 400, error |-> "Invalid market ID"]
                     /\ pc' = "done"
                     /\ UNCHANGED marketIdNum
                ELSE /\ marketIdNum' = parsed.value
                     /\ pc' = "previewMarketInfo"
                     /\ UNCHANGED response
    /\ UNCHANGED <<request, calls, failures, scanVars, tradeEvents,
                   freeTokenEvents, participants>>
    /\ UNCHANGED marketVars
    /\ UNCHANGED <<mapperVars, racers, buttonVars>>

PreconditionDisputedFirst(resolved, disputed) ==
    IF disputed THEN "Market is disputed. Cannot distribute winnings."
    ELSE IF ~resolved THEN "Market is not resolved yet. Cannot distribute winnings."
    ELSE ""

\* the message of the first precondition the market fails, "" when it
\* passes both
Precondition(resolved, disputed) ==
    IF ~resolved THEN "Market is not resolved yet. Cannot distribute winnings."
    ELSE IF disputed THEN "Market is disputed. Cannot distribute winnings."
    ELSE ""

PreviewMarketInfo ==
    /\ pc = "previewMarketInfo"
    /\ \E answer \in [ok : {TRUE}, resolved : BOOLEAN, disputed : BOOLEAN,
                       invalidated : BOOLEAN]
                     \cup {a \in {TransportError} : CanFail} :
         /\ calls' = Append(calls, Call("getMarketInfo", marketIdNum, answer))
         /\ IF ~answer.ok
            THEN /\ failures' = failures + 1
                 /\ response' = ServerError
                 /\ pc' = "done"
            ELSE /\ UNCHANGED failures
                 /\ IF Precondition(answer.resolved, answer.disputed) # ""
                    THEN /\ response' = EmptyPreview(Precondition(answer.resolved,
                                                                  answer.disputed))
                         /\ pc' = "done"
                    ELSE /\ pc' = "getTradeEvents"
                         /\ UNCHANGED response
    /\ UNCHANGED <<request, scanVars, previewVars>>
    /\ UNCHANGED marketVars
    /\ UNCHANGED <<mapperVars, racers, buttonVars>>

PreviewGetTradeEvents ==
    /\ pc = "getTradeEvents"
    /\ \E answer \in [ok : {TRUE}, logs : SeqsUpTo(TradeExecuted, MaxTradeEvents)]
                     \cup {a \in {TransportError} : CanFail} :
         /\ calls' = Append(calls, Call("getLogs:TradeExecuted", marketIdNum, answer))
         /\ IF ~answer.ok
            THEN /\ failures' = failures + 1
                 /\ response' = ServerError
                 /\ pc' = "done"
                 /\ UNCHANGED tradeEvents
            ELSE /\ tradeEvents' = answer.logs
                 /\ pc' = "getFreeTokenEvents"
                 /\ UNCHANGED <<failures, response>>
    /\ UNCHANGED <<request, scanVars, marketIdNum, freeTokenEvents, participants>>
    /\ UNCHANGED marketVars
    /\ UNCHANGED <<mapperVars, racers, buttonVars>>

\* the FreeTokensClaimed fetch and the derivation of the participants
PreviewGetFreeTokenEvents ==
    /\ pc = "getFreeTokenEvents"
    /\ \E answer \in [ok : {TRUE}, logs : SeqsUpTo(FreeTokensClaimed, MaxFreeTokenEvents)]
                     \cup {a \in {TransportError} : CanFail} :
         /\ calls' = Append(calls, Call("getLogs:FreeTokensClaimed", marketIdNum, answer))
         /\ IF ~answer.ok
            THEN /\ failures' = failures + 1
                 /\ response' = ServerError
                 /\ pc' = "done"
                 /\ UNCHANGED <<freeTokenEvents, participants>>
            ELSE /\ freeTokenEvents' = answer.logs
                 /\ UNCHANGED failures
                 /\ IF Len(tradeEvents) = 0 /\ Len(answer.logs) = 0
                    THEN /\ response' = EmptyPreview("No trade or free token events found for this market. This could mean the market has no participants yet.")
                         /\ pc' = "done"
                         /\ UNCHANGED participants
                    ELSE /\ participants' = Participants(tradeEvents, answer.logs)
                         /\ IF Len(participants') = 0
                            THEN /\ response' =
                                      [status |-> 200, recipients |-> <<>>,
                                       amounts |-> <<>>, totalParticipants |-> 0,
                                       message |-> "No participants found for this market"]
                                 /\ pc' = "done"
                            ELSE /\ pc' = "getEligibleWinners"
                                 /\ UNCHANGED response
    /\ UNCHANGED <<request, scanVars, marketIdNum, tradeEvents>>
    /\ UNCHANGED marketVars
    /\ UNCHANGED <<mapperVars, racers, buttonVars>>

\* the subsequences of s
SubSeqs(s) ==
    { [i \in 1..Cardinality(I) |->
          s[CHOOSE j \in I : Cardinality({k \in I : k < j}) = i - 1]]
      : I \in SUBSET DOMAIN s }

\* what getEligibleWinners may answer for the addresses it is asked about
EligibleWinnersAnswers(addresses) ==
    UNION { [ok : {TRUE}, recipients : {r}, amounts : [1..Len(r) -> WinAmounts]]
            : r \in SubSeqs(addresses) }

PreviewGetEligibleWinners ==
    /\ pc = "getEligibleWinners"
    /\ \E answer \in EligibleWinnersAnswers(participants)
                     \cup {a \in {TransportError} : CanFail} :
         /\ calls' = Append(calls, [fn |-> "getEligibleWinners", marketId |-> marketIdNum,
                                    args |-> participants, answer |-> answer])
         /\ IF ~answer.ok
            THEN /\ failures' = failures + 1
                 /\ response' = ServerError
            ELSE /\ UNCHANGED failures
                 /\ response' =
                      [status |-> 200,
                       recipients |-> answer.recipients,
                       amounts |-> [i \in DOMAIN answer.amounts |->
                                       FormatAmount(answer.amounts[i])],
                       totalParticipants |-> Len(participants),
                       eligibleCount |-> Len(answer.recipients)]
    /\ pc' = "done"
    /\ UNCHANGED <<request, scanVars, previewVars>>
    /\ UNCHANGED marketVars
    /\ UNCHANGED <<mapperVars, racers, buttonVars>>

-----------------------------------------------------------------------------
(* market/analytics: calculateMarketAnalytics.  Times are in seconds, a    *)
(* date is the number of its UTC day.  A price is kept in thousandths     *)
(* (500 is 0.5): the quotient of two volumes is rounded as the real        *)
(* quotient, the rounding error of the double division is not modelled.    *)
(* Of a MarketEvent only timestamp, isOptionA and amount are kept, the     *)
(* fields the aggregation reads.                                           *)

SecondsPerDay == 86400

MarketEvent(timestamp, isOptionA, amount) ==
    [timestamp |-> timestamp, isOptionA |-> isOptionA, amount |-> amount]

\* new Date(timestamp).toISOString().split("T")[0]
DateOf(timestamp) == timestamp \div SecondsPerDay

\* x placed behind the last element whose timestamp is not larger
RECURSIVE InsertByTimestamp(_, _)
InsertByTimestamp(sorted, x) ==
    IF sorted = <<>> \/ sorted[Len(sorted)].timestamp <= x.timestamp
    THEN Append(sorted, x)
    ELSE Append(InsertByTimestamp(SubSeq(sorted, 1, Len(sorted) - 1), x),
                sorted[Len(sorted)])

\* list.sort((a, b) => a.timestamp - b.timestamp), a stable sort
RECURSIVE SortByTimestamp(_)
SortByTimestamp(list) ==
    IF list = <<>> THEN <<>>
    ELSE InsertByTimestamp(SortByTimestamp(SubSeq(list, 1, Len(list) - 1)),
                           list[Len(list)])

\* one iteration of events.forEach: the bucket of the event's date is
\* created or updated
AddToDailyData(dailyData, event) ==
    LET date == DateOf(event.timestamp)
        amount == event.amount
        at == {i \in DOMAIN dailyData : dailyData[i].date = date}
        existing ==
            IF at # {} THEN dailyData[CHOOSE i \in at : TRUE]
            ELSE [date |-> date, optionAVolume |-> 0, optionBVolume |-> 0,
                  totalVolume |-> 0, trades |-> 0, timestamp |-> event.timestamp]
        updated ==
            [existing EXCEPT
                !.optionAVolume = IF event.isOptionA THEN @ + amount ELSE @,
                !.optionBVolume = IF event.isOptionA THEN @ ELSE @ + amount,
                !.totalVolume = @ + amount,
                !.trades = @ + 1]
    IN  IF at # {}
        THEN [i \in DOMAIN dailyData |-> IF i \in at THEN updated ELSE dailyData[i]]
        ELSE Append(dailyData, updated)

\* the entries of dailyData, in insertion order
RECURSIVE DailyData(_)
DailyData(list) ==
    IF list = <<>> THEN <<>>
    ELSE AddToDailyData(DailyData(SubSeq(list, 1, Len(list) - 1)), list[Len(list)])

\* the volume of day n alone
DayVolume(days, field, n) == days[n][field]

RECURSIVE RunningVolume(_, _, _)
RunningVolume(days, field, n) ==
    IF n = 0 THEN 0 ELSE RunningVolume(days, field, n - 1) + days[n][field]

PriceOfNoVolumeZero(volume, totalVol) ==
    IF totalVol > 0 THEN (2000 * volume + totalVol) \div (2 * totalVol) ELSE 0

\* Math.round((totalVol > 0 ? volume / totalVol : 0.5) * 1000), the price in
\* thousandths; Math.round rounds a half up
Price(volume, totalVol) ==
    IF totalVol > 0 THEN (2000 * volume + totalVol) \div (2 * totalVol) ELSE 500

PriceHistory(days) ==
    [i \in DOMAIN days |->
        LET runningOptionAVolume == RunningVolume(days, "optionAVolume", i)
            runningOptionBVolume == RunningVolume(days, "optionBVolume", i)
            totalVol == runningOptionAVolume + runningOptionBVolume
        IN  [date |-> days[i].date, timestamp |-> days[i].timestamp,
             optionA |-> Price(runningOptionAVolume, totalVol),
             optionB |-> Price(runningOptionBVolume, totalVol),
             volume |-> days[i].totalVolume, trades |-> days[i].trades]]

VolumeHistory(days) ==
    [i \in DOMAIN days |->
        [date |-> days[i].date, timestamp |-> days[i].timestamp,
         volume |-> days[i].totalVolume, trades |-> days[i].trades]]

\* a quotient of two numbers the model does not evaluate
Ratio(num, den) == [num |-> num, den |-> den]

\* calculatePriceChange, in thousandths
CalculatePriceChange(priceHistory) ==
    IF Len(priceHistory) < 2 THEN 0
    ELSE priceHistory[Len(priceHistory)].optionA
            - priceHistory[Len(priceHistory) - 1].optionA

\* a volume change that reports 0 whenever the previous volume is 0
CalculateVolumeChangeZeroBase(volumeHistory) ==
    IF Len(volumeHistory) < 2 \/ volumeHistory[Len(volumeHistory) - 1].volume = 0
    THEN Ratio(0, 1)
    ELSE Ratio(volumeHistory[Len(volumeHistory)].volume
                  - volumeHistory[Len(volumeHistory) - 1].volume,
               volumeHistory[Len(volumeHistory) - 1].volume)

CalculateVolumeChange(volumeHistory) ==
    IF Len(volumeHistory) < 2 THEN Ratio(0, 1)
    ELSE LET latest == volumeHistory[Len(volumeHistory)]
             previous == volumeHistory[Len(volumeHistory) - 1]
         IN  IF previous.volume = 0
             THEN Ratio(IF latest.volume > 0 THEN 1 ELSE 0, 1)
             ELSE Ratio(latest.volume - previous.volume, previous.volume)

\* reduce((sum, x) => sum + x[field], 0)
SumOf(list, field) ==
    LET sum[n \in 0..Len(list)] == IF n = 0 THEN 0 ELSE sum[n - 1] + list[n][field]
    IN  sum[Len(list)]

\* calculateMarketAnalytics for a non-empty list of events, at time t
AnalyticsOf(list, t) ==
    LET days == SortByTimestamp(DailyData(list))
        priceHistory == PriceHistory(days)
        volumeHistory == VolumeHistory(days)
    IN  [priceHistory |-> priceHistory,
         volumeHistory |-> volumeHistory,
         totalVolume |-> SumOf(list, "amount"),
         totalTrades |-> Len(list),
         priceChange24h |-> CalculatePriceChange(priceHistory),
         volumeChange24h |-> CalculateVolumeChange(volumeHistory),
         lastUpdated |-> t]

\* Math.random(), in thousandths. One fallback or mock payload is generated
\* from a single draw: every Math.random() call of that generation returns it
RandomDraws == {0, 995}

\* i of the first iteration of the loop `for (let i = 7; i >= 0; i--)`
FallbackFirstDay == 7

\* currentPriceA after n iterations of the loop, in 1/10000:
\* volatility = (Math.random() - 0.5) * 0.1, the price clamped to [0.05, 0.95]
RECURSIVE FallbackPrice(_, _)
FallbackPrice(r, n) ==
    IF n = 0 THEN 5000
    ELSE CHOOSE price \in
            { IF moved < 500 THEN 500 ELSE IF moved > 9500 THEN 9500 ELSE moved :
                moved \in {FallbackPrice(r, n - 1) + (r - 500)} } : TRUE

\* the entry pushed by the iteration with loop variable i
FallbackEntry(r, t, i) ==
    LET currentPriceA == FallbackPrice(r, FallbackFirstDay - i + 1)
    IN  [date |-> DateOf(t - i * SecondsPerDay),
         timestamp |-> t - i * SecondsPerDay,
         optionA |-> (currentPriceA + 5) \div 10,
         optionB |-> (10000 - currentPriceA + 5) \div 10,
         volume |-> r + 100,
         trades |-> (r \div 20) + 10]

\* the entries pushed by the loop, i = 7 down to 0
FallbackLoop(r, t) ==
    [j \in 1..(FallbackFirstDay + 1) |-> FallbackEntry(r, t, FallbackFirstDay - j + 1)]

\* generateFallbackAnalytics at time t with draw r
FallbackAnalytics(r, t) ==
    LET priceHistory == FallbackLoop(r, t)
    IN  [priceHistory |-> priceHistory,
         volumeHistory |->
            [j \in DOMAIN priceHistory |->
                [date |-> priceHistory[j].date,
                 timestamp |-> priceHistory[j].timestamp,
                 volume |-> priceHistory[j].volume,
                 trades |-> priceHistory[j].trades]],
         totalVolume |-> SumOf(priceHistory, "volume"),
         totalTrades |-> SumOf(priceHistory, "trades"),
         priceChange24h |-> (r - 500) \div 5,
         volumeChange24h |-> Ratio(2 * (r - 500), 1000),
         lastUpdated |-> t]

\* calculateMarketAnalytics, given the events getMarketEvents returned
CalculateMarketAnalytics(list, r, t) ==
    IF Len(list) = 0 THEN FallbackAnalytics(r, t) ELSE AnalyticsOf(list, t)

-----------------------------------------------------------------------------
(* market/analytics and market/current-price: requests, caches, the chain *)

\* CACHE_DURATION of the analytics route and of the current-price route
AnalyticsCacheDuration == 300
PriceCacheDuration == 30

\* a Map with no entry; a Map is a function from its keys
EmptyMap == <<>>

\* map.set(key, value)
MapSet(map, key, value) ==
    [k \in DOMAIN map \cup {key} |-> IF k = key THEN value ELSE map[k]]

\* keys.forEach((key) => map.delete(key))
MapDelete(map, keys) == [k \in DOMAIN map \ keys |-> map[k]]

\* cached && Date.now() - cached.lastUpdated < duration
Fresh(map, key, duration) ==
    key \in DOMAIN map /\ now - map[key].lastUpdated < duration

\* `${marketId}-${timeRange}`
CacheKey(id, timeRange) == id \o <<"-">> \o timeRange

\* String.prototype.startsWith
StartsWith(s, prefix) ==
    Len(prefix) <= Len(s) /\ SubSeq(s, 1, Len(prefix)) = prefix

\* the value of a query parameter that is absent
JNull == [kind |-> "null"]

Range7d == <<"7", "d">>
Range24h == <<"2", "4", "h">>
Market1 == <<"1">>
Market10 == <<"1", "0">>

AnalyticsGetRequests ==
    [route : {"market/analytics"}, method : {"GET"},
     marketId : {JNull, JString(Market1), JString(Market10)},
     timeRange : {JNull, JString(Range24h)}]
AnalyticsPostRequests ==
    [route : {"market/analytics"}, method : {"POST"},
     marketId : {JUndefined, JNumber(0), JNumber(1), JString(Market10)}]
PriceRequests ==
    [route : {"market/current-price"}, method : {"GET"},
     marketId : {JNull, JString(Market1), JString(<<"x">>)}]

MarketRequests == AnalyticsGetRequests \cup AnalyticsPostRequests \cup PriceRequests

\* the exported function a request enters
EntryOf(req) == IF "method" \in DOMAIN req THEN req.method ELSE "POST"

\* BigInt(marketId) of a string returns for a string of decimal digits and
\* throws a SyntaxError for the other strings explored
ParsesAsBigInt(chars) == \A i \in DOMAIN chars : DigitValue(chars[i]) >= 0

\* the time the model starts at, 40 days after the epoch
StartTime == 40 * SecondsPerDay

\* the chain: SharesPurchased logs, and the timestamp of their blocks
SharesPurchased ==
    { [blockNumber |-> 1, isOptionA |-> TRUE, amount |-> 1],
      [blockNumber |-> 2, isOptionA |-> FALSE, amount |-> 15] }
BlockTimestamp(blockNumber) ==
    IF blockNumber = 1 THEN StartTime - 2 * SecondsPerDay ELSE StartTime - 3600

\* the time that passes between two requests to a route
Delays(route) ==
    IF route = "market/analytics"
    THEN {AnalyticsCacheDuration - 1, AnalyticsCacheDuration}
    ELSE {PriceCacheDuration - 1, PriceCacheDuration}

-----------------------------------------------------------------------------
(* market/analytics: GET and POST.  The clock stands still while a request *)
(* is handled and moves between requests.                                  *)

Json(data) == [status |-> 200, data |-> data]

\* a handler that reports an absent marketId as a server failure
MissingMarketIdAsFailure == [status |-> 500, error |-> "Market ID is required"]

MissingMarketId == [status |-> 400, error |-> "Market ID is required"]

\* searchParams.get("timeRange") || "7d"
TimeRangeOf(req) == IF Truthy(req.timeRange) THEN req.timeRange.chars ELSE Range7d

\* the switch on timeRange
CutoffTime(timeRange, t) ==
    CASE timeRange = Range24h -> t - SecondsPerDay
      [] timeRange = Range7d -> t - 7 * SecondsPerDay
      [] timeRange = <<"3", "0", "d">> -> t - 30 * SecondsPerDay
      [] OTHER -> 0

FilteredAnalytics(computed, cutoffTime) ==
    [computed EXCEPT
        !.priceHistory = SelectSeq(@, LAMBDA p : p.timestamp >= cutoffTime),
        !.volumeHistory = SelectSeq(@, LAMBDA v : v.timestamp >= cutoffTime)]

\* GET up to the await of calculateMarketAnalytics
AnalyticsGET ==
    /\ pc = "GET" /\ request.route = "market/analytics"
    /\ IF ~Truthy(request.marketId)
       THEN /\ response' = MissingMarketId
            /\ pc' = "done"
       ELSE LET cacheKey == CacheKey(request.marketId.chars, TimeRangeOf(request))
            IN  IF Fresh(analyticsCache, cacheKey, AnalyticsCacheDuration)
                THEN /\ response' = Json(analyticsCache[cacheKey].data)
                     /\ pc' = "done"
                ELSE /\ pc' = "getShareLogs"
                     /\ UNCHANGED response
    /\ UNCHANGED <<request, calls, failures, scanVars, previewVars, marketVars>>
    /\ UNCHANGED <<mapperVars, racers, buttonVars>>

\* GET from the return of calculateMarketAnalytics on: the analytics of the
\* events are filtered, stored and returned
AnalyticsRespond(list) ==
    \E r \in IF Len(list) = 0 THEN RandomDraws ELSE {0} :
        LET timeRange == TimeRangeOf(request)
            cacheKey == CacheKey(request.marketId.chars, timeRange)
            filteredAnalytics ==
                FilteredAnalytics(CalculateMarketAnalytics(list, r, now),
                                  CutoffTime(timeRange, now))
        IN  /\ analytics' = CalculateMarketAnalytics(list, r, now)
            /\ analyticsCache' =
                  MapSet(analyticsCache, cacheKey,
                         [data |-> filteredAnalytics, lastUpdated |-> now])
            /\ storedAt' = MapSet(storedAt, <<request.marketId.chars, timeRange>>,
                                  [request |-> handled, time |-> now,
                                   data |-> filteredAnalytics])
            /\ response' = Json(filteredAnalytics)
            /\ pc' = "done"

\* getMarketEvents: the getLogs call. BigInt(marketId) may throw before it;
\* every error is caught and makes getMarketEvents return []
AnalyticsGetLogs ==
    /\ pc = "getShareLogs"
    /\ IF ~ParsesAsBigInt(request.marketId.chars)
       THEN /\ AnalyticsRespond(<<>>)
            /\ UNCHANGED <<calls, failures, shareLogs, events>>
       ELSE \E answer \in [ok : {TRUE}, logs : SeqsUpTo(SharesPurchased, MaxShareLogs)]
                          \cup {a \in {TransportError} : CanFail} :
              /\ calls' = Append(calls, Call("getLogs:SharesPurchased",
                                             request.marketId.chars, answer))
              /\ IF ~answer.ok
                 THEN /\ failures' = failures + 1
                      /\ AnalyticsRespond(<<>>)
                      /\ UNCHANGED <<shareLogs, events>>
                 ELSE /\ UNCHANGED failures
                      /\ IF Len(answer.logs) = 0
                         THEN /\ AnalyticsRespond(<<>>)
                              /\ UNCHANGED <<shareLogs, events>>
                         ELSE /\ shareLogs' = answer.logs
                              /\ events' = <<>>
                              /\ pc' = "getBlock"
                              /\ UNCHANGED <<response, analyticsCache, storedAt, analytics>>
    /\ UNCHANGED <<request, scanVars, previewVars, now, handled, priceCache,
                   postedAt, quote>>
    /\ UNCHANGED <<mapperVars, racers, buttonVars>>

\* getMarketEvents: the getBlock call for the next log; after the last one
\* the events are sorted and returned
AnalyticsGetBlock ==
    /\ pc = "getBlock"
    /\ LET log == Head(shareLogs) IN
       \E answer \in {[ok |-> TRUE, timestamp |-> BlockTimestamp(log.blockNumber)]}
                     \cup {a \in {TransportError} : CanFail} :
         /\ calls' = Append(calls, Call("getBlock", log.blockNumber, answer))
         /\ IF ~answer.ok
            THEN /\ failures' = failures + 1
                 /\ AnalyticsRespond(<<>>)
                 /\ UNCHANGED <<shareLogs, events>>
            ELSE /\ UNCHANGED failures
                 /\ events' = Append(events, MarketEvent(answer.timestamp,
                                                         log.isOptionA, log.amount))
                 /\ shareLogs' = Tail(shareLogs)
                 /\ IF shareLogs' = <<>>
                    THEN AnalyticsRespond(SortByTimestamp(events'))
                    ELSE UNCHANGED <<pc, response, analyticsCache, storedAt, analytics>>
    /\ UNCHANGED <<request, scanVars, previewVars, now, handled, priceCache,
                   postedAt, quote>>
    /\ UNCHANGED <<mapperVars, racers, buttonVars>>

\* POST: the keys that start with marketId are deleted; startsWith converts
\* its argument to a string
AnalyticsPOST ==
    /\ pc = "POST" /\ request.route = "market/analytics"
    /\ IF ~Truthy(request.marketId)
       THEN /\ response' = MissingMarketId
            /\ UNCHANGED <<analyticsCache, postedAt>>
       ELSE LET cacheKeys == {key \in DOMAIN analyticsCache :
                                 StartsWith(key, ToStringOf(request.marketId))}
            IN  /\ analyticsCache' = MapDelete(analyticsCache, cacheKeys)
                /\ postedAt' = MapSet(postedAt, ToStringOf(request.marketId), handled)
                /\ response' = [status |-> 200, success |-> TRUE,
                                message |-> "Cache cleared"]
    /\ pc' = "done"
    /\ UNCHANGED <<request, calls, failures, scanVars, previewVars, now, handled,
                   priceCache, storedAt, shareLogs, events, analytics, quote>>
    /\ UNCHANGED <<mapperVars, racers, buttonVars>>

-----------------------------------------------------------------------------
(* market/current-price: GET and getCurrentMarketPrice *)

\* getMarketInfo of the contract: (question, optionA, optionB, endTime,
\* outcome, totalOptionAShares, totalOptionBShares, resolved). The handler
\* destructures the first two elements of the tuple as the share totals.
PriceMarketInfo ==
    [ok : {TRUE}, question : {<<"Q", "?">>}, optionA : {<<"Y">>},
     totalOptionAShares : {30}, totalOptionBShares : {10}]

\* Number(value) of a string: 0 for "", the number for decimal digits, NaN
\* for the other strings explored
NumberOfString(chars) ==
    IF chars = <<>> THEN Num(0)
    ELSE IF ParsesAsBigInt(chars) THEN ParseDigits(chars, 1, 0)
    ELSE NaN

\* the prices getCurrentMarketPrice computes from marketData
QuoteOf(marketData) ==
    LET totalOptionAShares == NumberOfString(marketData.question)
        totalOptionBShares == NumberOfString(marketData.optionA)
        totalShares ==
            IF totalOptionAShares.nan \/ totalOptionBShares.nan THEN NaN
            ELSE Num(totalOptionAShares.value + totalOptionBShares.value)
        positive == ~totalShares.nan /\ totalShares.value > 0
    IN  [currentPriceA |->
            IF positive THEN Ratio(totalOptionAShares.value, totalShares.value)
            ELSE Ratio(1, 2),
         currentPriceB |->
            IF positive THEN Ratio(totalOptionBShares.value, totalShares.value)
            ELSE Ratio(1, 2),
         totalShares |-> totalShares]

NoQuote == [currentPriceA |-> Ratio(1, 2), currentPriceB |-> Ratio(1, 2),
            totalShares |-> Num(0)]

\* the object getCurrentMarketPrice returns from its try block
PriceData(q, lastTrade) ==
    [currentPriceA |-> Price(q.currentPriceA.num, q.currentPriceA.den),
     currentPriceB |-> Price(q.currentPriceB.num, q.currentPriceB.den),
     totalShares |-> q.totalShares,
     lastTrade |-> lastTrade,
     timestamp |-> now]

MockDataWithoutTrade(r) ==
    [currentPriceA |-> 500, currentPriceB |-> 500, totalShares |-> Num(0),
     timestamp |-> now]

\* the mock data of the catch block, generated from the draw r
MockData(r) ==
    LET priceA == 5000 + (r - 500) * 4
        priceB == 10000 - priceA
    IN  [currentPriceA |-> (priceA + 5) \div 10,
         currentPriceB |-> (priceB + 5) \div 10,
         totalShares |-> Num(r * 10 + 1000),
         lastTrade |->
            [timestamp |-> now - (r * 60) \div 1000,
             option |-> IF r > 500 THEN "A" ELSE "B",
             amount |-> r + 100,
             price |-> IF r > 500 THEN Ratio(priceA, 10000) ELSE Ratio(priceB, 10000)],
         timestamp |-> now]

\* GET from the return of getCurrentMarketPrice on
PriceRespond(priceData) ==
    /\ priceCache' = MapSet(priceCache, request.marketId.chars,
                            [data |-> priceData, lastUpdated |-> now])
    /\ storedAt' = MapSet(storedAt, <<request.marketId.chars>>,
                          [request |-> handled, time |-> now, data |-> priceData])
    /\ response' = Json(priceData)
    /\ pc' = "done"

\* the catch block of getCurrentMarketPrice
PriceFailed == \E r \in RandomDraws : PriceRespond(MockData(r))

\* GET up to the await of getCurrentMarketPrice
PriceGET ==
    /\ pc = "GET" /\ request.route = "market/current-price"
    /\ IF ~Truthy(request.marketId)
       THEN /\ response' = MissingMarketId
            /\ pc' = "done"
       ELSE IF Fresh(priceCache, request.marketId.chars, PriceCacheDuration)
            THEN /\ response' = Json(priceCache[request.marketId.chars].data)
                 /\ pc' = "done"
            ELSE /\ pc' = "priceMarketInfo"
                 /\ UNCHANGED response
    /\ UNCHANGED <<request, calls, failures, scanVars, previewVars, marketVars>>
    /\ UNCHANGED <<mapperVars, racers, buttonVars>>

\* the getMarketInfo read; BigInt(marketId) may throw before it
PriceReadMarketInfo ==
    /\ pc = "priceMarketInfo"
    /\ IF ~ParsesAsBigInt(request.marketId.chars)
       THEN /\ PriceFailed
            /\ UNCHANGED <<calls, failures, quote>>
       ELSE \E answer \in PriceMarketInfo \cup {a \in {TransportError} : CanFail} :
              /\ calls' = Append(calls, Call("getMarketInfo",
                                             request.marketId.chars, answer))
              /\ IF ~answer.ok
                 THEN /\ failures' = failures + 1
                      /\ PriceFailed
                      /\ UNCHANGED quote
                 ELSE /\ quote' = QuoteOf(answer)
                      /\ pc' = "priceGetLogs"
                      /\ UNCHANGED <<failures, response, priceCache, storedAt>>
    /\ UNCHANGED <<request, scanVars, previewVars, now, handled, analyticsCache,
                   postedAt, shareLogs, events, analytics>>
    /\ UNCHANGED <<mapperVars, racers, buttonVars>>

\* the getLogs call for the latest block
PriceGetLogs ==
    /\ pc = "priceGetLogs"
    /\ \E answer \in [ok : {TRUE}, logs : SeqsUpTo(SharesPurchased, MaxShareLogs)]
                     \cup {a \in {TransportError} : CanFail} :
         /\ calls' = Append(calls, Call("getLogs:SharesPurchased",
                                        request.marketId.chars, answer))
         /\ IF ~answer.ok
            THEN /\ failures' = failures + 1
                 /\ PriceFailed
                 /\ UNCHANGED shareLogs
            ELSE /\ UNCHANGED failures
                 /\ IF Len(answer.logs) > 0
                    THEN /\ shareLogs' = answer.logs
                         /\ pc' = "priceGetBlock"
                         /\ UNCHANGED <<response, priceCache, storedAt>>
                    ELSE /\ PriceRespond(PriceData(quote, JNull))
                         /\ UNCHANGED shareLogs
    /\ UNCHANGED <<request, scanVars, previewVars, now, handled, analyticsCache,
                   postedAt, events, analytics, quote>>
    /\ UNCHANGED <<mapperVars, racers, buttonVars>>

\* the getBlock call for the last of the recent logs
PriceGetBlock ==
    /\ pc = "priceGetBlock"
    /\ LET latestLog == shareLogs[Len(shareLogs)] IN
       \E answer \in {[ok |-> TRUE, timestamp |-> BlockTimestamp(latestLog.blockNumber)]}
                     \cup {a \in {TransportError} : CanFail} :
         /\ calls' = Append(calls, Call("getBlock", latestLog.blockNumber, answer))
         /\ IF ~answer.ok
            THEN /\ failures' = failures + 1
                 /\ PriceFailed
            ELSE /\ UNCHANGED failures
                 /\ PriceRespond(PriceData(quote,
                        [timestamp |-> answer.timestamp,
                         option |-> IF latestLog.isOptionA THEN "A" ELSE "B",
                         amount |-> latestLog.amount,
                         price |-> IF latestLog.isOptionA THEN quote.currentPriceA
                                   ELSE quote.currentPriceB]))
    /\ UNCHANGED <<request, scanVars, previewVars, now, handled, analyticsCache,
                   postedAt, shareLogs, events, analytics, quote>>
    /\ UNCHANGED <<mapperVars, racers, buttonVars>>

\* the next request to the same route module arrives, after some time
NextRequest ==
    /\ pc = "done" /\ request \in MarketRequests
    /\ handled + 1 < MaxRequests
    /\ \E next \in {r \in MarketRequests : r.route = request.route} :
         /\ request' = next
         /\ pc' = EntryOf(next)
    /\ \E d \in Delays(request.route) : now' = now + d
    /\ handled' = handled + 1
    /\ response' = NoResponse
    /\ calls' = <<>>
    /\ shareLogs' = <<>> /\ events' = <<>> /\ analytics' = JNull /\ quote' = NoQuote
    /\ UNCHANGED <<failures, scanVars, previewVars, analyticsCache, priceCache,
                   storedAt, postedAt>>
    /\ UNCHANGED <<mapperVars, racers, buttonVars>>

-----------------------------------------------------------------------------
Init ==
    /\ request \in Requests \cup MarketRequests
    /\ pc = EntryOf(request)
    /\ response = NoResponse
    /\ calls = <<>>
    /\ failures = 0
    /\ maxMarketId = 0 /\ startId = 0 /\ endId = 0 /\ marketId = 0
    /\ withdrawals = <<>> /\ batchWithdrawals = <<>>
    /\ mi = NoMarket /\ isCreator = FALSE
    /\ adminWithdrawals = <<>>
    /\ outage \in IF request \in DiscoverRequests /\ request.userAddress # NoAddress
                  THEN BOOLEAN ELSE {FALSE}
    /\ marketIdNum = 0 /\ tradeEvents = <<>> /\ freeTokenEvents = <<>>
    /\ participants = <<>>
    /\ now = StartTime /\ handled = 0
    /\ analyticsCache = EmptyMap /\ priceCache = EmptyMap
    /\ storedAt = EmptyMap /\ postedAt = EmptyMap
    /\ shareLogs = <<>> /\ events = <<>> /\ analytics = JNull /\ quote = NoQuote
    /\ chain = {} /\ store = EmptyMap /\ handledEvents = <<>> /\ saved = <<>>
    /\ racers = <<>>
    /\ hasAlreadyClaimed = FALSE /\ txStatus = "idle" /\ claimedOnChain = FALSE
    /\ writes = 0 /\ lastError = NoError

Next ==
    \/ PreviewPOST
    \/ PreviewMarketInfo
    \/ PreviewGetTradeEvents
    \/ PreviewGetFreeTokenEvents
    \/ PreviewGetEligibleWinners
    \/ AdminDiscoverPOST
    \/ ReadMarketCount
    \/ NextBatch
    \/ CheckMarket
    \/ BatchReturn
    \/ Delay
    \/ ReadMarketFinancials
    \/ CheckIfFreeMarket
    \/ GetUnusedPrizePool
    \/ ReadLPInfo
    \/ AdminDiscoverRespond
    \/ AnalyticsGET
    \/ AnalyticsGetLogs
    \/ AnalyticsGetBlock
    \/ AnalyticsPOST
    \/ PriceGET
    \/ PriceReadMarketInfo
    \/ PriceGetLogs
    \/ PriceGetBlock
    \/ NextRequest

Spec == Init /\ [][Next]_vars

\* The handlers are async functions on the event loop: a handler that is not
\* finished is resumed once the promise it awaits has settled, and every
\* awaited call settles, with an answer or with an error.
FairSpec == Spec /\ WF_vars(Next)

-----------------------------------------------------------------------------
(* The aggregator on its own: calculateMarketAnalytics applied to the      *)
(* events a fetch produced, for every list of up to MaxEvents trade events *)
(* (in the order of the logs), over three block times on two days and the  *)
(* amounts 0, 1 and 15.                                                    *)

\* the events getMarketEvents pushed, before its sort
FetchedEvents ==
    {MarketEvent(t, o, a) :
        t \in {StartTime - 2 * SecondsPerDay, StartTime - 2 * SecondsPerDay + 3600,
               StartTime - SecondsPerDay},
        o \in BOOLEAN,
        a \in {0, 1, 15}}

AggregatorInit ==
    /\ request = [route |-> "market/analytics", method |-> "GET",
                  marketId |-> JString(Market1), timeRange |-> JNull]
    /\ pc = "sort"
    /\ events \in SeqsUpTo(FetchedEvents, MaxEvents)
    /\ response = NoResponse
    /\ calls = <<>> /\ failures = 0
    /\ maxMarketId = 0 /\ startId = 0 /\ endId = 0 /\ marketId = 0
    /\ withdrawals = <<>> /\ batchWithdrawals = <<>>
    /\ mi = NoMarket /\ isCreator = FALSE
    /\ adminWithdrawals = <<>> /\ outage = FALSE
    /\ marketIdNum = 0
    /\ tradeEvents = <<>> /\ freeTokenEvents = <<>> /\ participants = <<>>
    /\ now = StartTime /\ handled = 0
    /\ analyticsCache = EmptyMap /\ priceCache = EmptyMap
    /\ storedAt = EmptyMap /\ postedAt = EmptyMap
    /\ shareLogs = <<>> /\ analytics = JNull /\ quote = NoQuote
    /\ chain = {} /\ store = EmptyMap /\ handledEvents = <<>> /\ saved = <<>>
    /\ racers = <<>>
    /\ hasAlreadyClaimed = FALSE /\ txStatus = "idle" /\ claimedOnChain = FALSE
    /\ writes = 0 /\ lastError = NoError

\* the return of getMarketEvents: events.sort(...)
SortEvents ==
    /\ pc = "sort"
    /\ events' = SortByTimestamp(events)
    /\ pc' = "calculate"
    /\ UNCHANGED <<request, response, calls, failures, scanVars, previewVars,
                   now, handled, analyticsCache, priceCache, storedAt, postedAt,
                   shareLogs, analytics, quote>>
    /\ UNCHANGED <<mapperVars, racers, buttonVars>>

\* calculateMarketAnalytics from the return of getMarketEvents on
Calculate ==
    /\ pc = "calculate"
    /\ \E r \in IF Len(events) = 0 THEN RandomDraws ELSE {0} :
          analytics' = CalculateMarketAnalytics(events, r, now)
    /\ pc' = "done"
    /\ UNCHANGED <<request, response, calls, failures, scanVars, previewVars,
                   now, handled, analyticsCache, priceCache, storedAt, postedAt,
                   shareLogs, events, quote>>
    /\ UNCHANGED <<mapperVars, racers, buttonVars>>

AggregatorSpec == AggregatorInit /\ [][SortEvents \/ Calculate]_vars

-----------------------------------------------------------------------------
(* policast-market-v-3.ts: the event handlers of the subgraph.  The 31     *)
(* handlers differ in the entity type and in the parameters they copy, so  *)
(* they are one action over the table ParamsOf.  Bytes are sequences of    *)
(* numbers 0..255; a transaction hash is two bytes long here.  A behaviour *)
(* indexes a chain with logs of two kinds; a log comes in two versions,    *)
(* with other parameter values and another block, as after a              *)
(* reorganisation of the chain.                                            *)

EventKinds ==
    {"AdminLiquidityWithdrawn", "BComputed", "BatchWinningsDistributed",
     "BettingTokenUpdated", "Claimed", "FeeAccrued", "FeeCollected",
     "FeeCollectorUpdated", "FeesUnlocked", "FreeMarketConfigSet",
     "FreeTokensClaimed", "LiquidityAdded", "MarketCreated",
     "MarketDisputed", "MarketInvalidated", "MarketPaused",
     "MarketResolved", "MarketValidated", "OwnershipTransferred", "Paused",
     "PlatformFeesWithdrawn", "PricesUpdated", "RoleAdminChanged",
     "RoleGranted", "RoleRevoked", "SharesSold", "SlippageProtect",
     "TradeExecuted", "Unpaused", "UserPortfolioUpdated",
     "WinningsDistributedToUser"}

\* the parameters each handler copies, by event kind
ParamsOf(kind) ==
    CASE kind = "AdminLiquidityWithdrawn" -> {"marketId", "creator", "amount"}
      [] kind = "BComputed" ->
           {"marketId", "bValue", "coverageRatioNum", "coverageRatioDen"}
      [] kind = "BatchWinningsDistributed" ->
           {"marketId", "totalDistributed", "recipientCount"}
      [] kind = "BettingTokenUpdated" -> {"oldToken", "newToken", "timestamp"}
      [] kind = "Claimed" -> {"marketId", "user", "amount"}
      [] kind = "FeeAccrued" ->
           {"marketId", "optionId", "isBuy", "rawAmount", "fee"}
      [] kind = "FeeCollected" -> {"marketId", "amount"}
      [] kind = "FeeCollectorUpdated" -> {"oldCollector", "newCollector"}
      [] kind = "FeesUnlocked" -> {"marketId", "amount"}
      [] kind = "FreeMarketConfigSet" ->
           {"marketId", "maxFreeParticipants", "tokensPerParticipant", "totalPrizePool"}
      [] kind = "FreeTokensClaimed" -> {"marketId", "user", "tokens"}
      [] kind = "LiquidityAdded" -> {"marketId", "provider", "amount"}
      [] kind = "MarketCreated" ->
           {"marketId", "question", "options", "endTime", "category", "marketType", "creator"}
      [] kind = "MarketDisputed" -> {"marketId", "disputer", "reason"}
      [] kind = "MarketInvalidated" ->
           {"marketId", "validator", "refundedAmount"}
      [] kind = "MarketPaused" -> {"marketId"}
      [] kind = "MarketResolved" -> {"marketId", "winningOptionId", "resolver"}
      [] kind = "MarketValidated" -> {"marketId", "validator"}
      [] kind = "OwnershipTransferred" -> {"previousOwner", "newOwner"}
      [] kind = "Paused" -> {"account"}
      [] kind = "PlatformFeesWithdrawn" -> {"collector", "amount"}
      [] kind = "PricesUpdated" -> {"marketId", "prices"}
      [] kind = "RoleAdminChanged" ->
           {"role", "previousAdminRole", "newAdminRole"}
      [] kind = "RoleGranted" -> {"role", "account", "sender"}
      [] kind = "RoleRevoked" -> {"role", "account", "sender"}
      [] kind = "SharesSold" ->
           {"marketId", "optionId", "seller", "quantity", "price"}
      [] kind = "SlippageProtect" ->
           {"marketId", "optionId", "isBuy", "quantity", "bound", "actualTotal"}
      [] kind = "TradeExecuted" ->
           {"marketId", "optionId", "buyer", "seller", "price", "quantity", "tradeId"}
      [] kind = "Unpaused" -> {"account"}
      [] kind = "UserPortfolioUpdated" ->
           {"user", "totalInvested", "totalWinnings", "unrealizedPnL", "realizedPnL", "tradeCount"}
      [] kind = "WinningsDistributedToUser" -> {"marketId", "user", "amount"}

\* an id made of the transaction hash alone
ConcatNothing(bytes, n) == bytes

\* hash.concatI32(n): the bytes followed by the four bytes of the i32 n,
\* least significant first
ConcatI32(bytes, n) ==
    bytes \o <<n % 256, (n \div 256) % 256, (n \div 65536) % 256,
               (n \div 16777216) % 256>>

\* the entity with the given id after the assignments of a handler
Stamped(event, id) ==
    [f \in ParamsOf(event.kind)
            \cup {"id", "blockNumber", "blockTimestamp", "transactionHash"} |->
        CASE f = "id" -> id
          [] f = "blockNumber" -> event.block.number
          [] f = "blockTimestamp" -> event.block.timestamp
          [] f = "transactionHash" -> event.transaction.hash
          [] OTHER -> event.params[f]]

\* a handler that takes the id from the hash and the block number
EntityKeyedByBlock(event) ==
    Stamped(event, ConcatI32(event.transaction.hash, event.block.number))

\* the entity a handler saves
EntityOf(event) ==
    Stamped(event, ConcatI32(event.transaction.hash, event.logIndex))

\* the logs of the given kinds: two transactions, two log indexes, two
\* versions of each log
LogsOfKinds(kinds) ==
    {[kind |-> k,
      params |-> [f \in ParamsOf(k) |-> <<f, v>>],
      block |-> [number |-> 100 + v, timestamp |-> 1000 + v],
      transaction |-> [hash |-> h],
      logIndex |-> l] :
        k \in kinds, h \in {<<171, 1>>, <<171, 2>>}, l \in {1, 256}, v \in 1..2}

MapperInit ==
    /\ chain \in {LogsOfKinds({k, "TradeExecuted"}) : k \in EventKinds}
    /\ store = EmptyMap /\ handledEvents = <<>> /\ saved = <<>>
    /\ racers = <<>>
    /\ hasAlreadyClaimed = FALSE /\ txStatus = "idle" /\ claimedOnChain = FALSE
    /\ writes = 0 /\ lastError = NoError
    /\ request = [route |-> "subgraph"]
    /\ pc = "index"
    /\ response = NoResponse
    /\ calls = <<>> /\ failures = 0
    /\ maxMarketId = 0 /\ startId = 0 /\ endId = 0 /\ marketId = 0
    /\ withdrawals = <<>> /\ batchWithdrawals = <<>>
    /\ mi = NoMarket /\ isCreator = FALSE
    /\ adminWithdrawals = <<>> /\ outage = FALSE
    /\ marketIdNum = 0
    /\ tradeEvents = <<>> /\ freeTokenEvents = <<>> /\ participants = <<>>
    /\ now = StartTime /\ handled = 0
    /\ analyticsCache = EmptyMap /\ priceCache = EmptyMap
    /\ storedAt = EmptyMap /\ postedAt = EmptyMap
    /\ shareLogs = <<>> /\ events = <<>> /\ analytics = JNull /\ quote = NoQuote

\* the indexer gives a log of the chain to the handler of its kind
HandleEvent ==
    /\ pc = "index" /\ Len(handledEvents) < MaxHandled
    /\ \E event \in chain :
          \* entity.save(): the row with the entity's id in the table of its
          \* type is created, or overwritten
          /\ store' = MapSet(store, <<event.kind, EntityOf(event).id>>,
                             EntityOf(event))
          /\ handledEvents' = Append(handledEvents, event)
          /\ saved' = Append(saved, EntityOf(event).id)
    /\ UNCHANGED <<request, pc, response, calls, failures, scanVars, previewVars,
                   marketVars, chain, racers, buttonVars>>

MapperSpec == MapperInit /\ [][HandleEvent]_vars

-----------------------------------------------------------------------------
(* Two analytics GET requests for one cache key handled at the same time.  *)
(* A handler runs without interruption up to its next await: the cache     *)
(* lookup; then calculateMarketAnalytics settles; then the filter, the     *)
(* cache write and the return.  Both requests find the same trades on the  *)
(* chain and read the same clock.                                          *)

RaceInit ==
    /\ request \in {r \in AnalyticsGetRequests : r.marketId = JString(Market1)}
    /\ pc = "race"
    /\ events \in SeqsUpTo(FetchedEvents, MaxShareLogs)
    /\ racers = [r \in 1..MaxRacers |->
                    [pc |-> "GET", analytics |-> JNull, response |-> NoResponse]]
    /\ response = NoResponse
    /\ calls = <<>> /\ failures = 0
    /\ maxMarketId = 0 /\ startId = 0 /\ endId = 0 /\ marketId = 0
    /\ withdrawals = <<>> /\ batchWithdrawals = <<>>
    /\ mi = NoMarket /\ isCreator = FALSE
    /\ adminWithdrawals = <<>> /\ outage = FALSE
    /\ marketIdNum = 0
    /\ tradeEvents = <<>> /\ freeTokenEvents = <<>> /\ participants = <<>>
    /\ now = StartTime /\ handled = 0
    /\ analyticsCache = EmptyMap /\ priceCache = EmptyMap
    /\ storedAt = EmptyMap /\ postedAt = EmptyMap
    /\ shareLogs = <<>> /\ analytics = JNull /\ quote = NoQuote
    /\ chain = {} /\ store = EmptyMap /\ handledEvents = <<>> /\ saved = <<>>
    /\ hasAlreadyClaimed = FALSE /\ txStatus = "idle" /\ claimedOnChain = FALSE
    /\ writes = 0 /\ lastError = NoError

\* GET up to its await: the cache lookup
RaceLookup(r) ==
    /\ pc = "race" /\ racers[r].pc = "GET"
    /\ LET cacheKey == CacheKey(request.marketId.chars, TimeRangeOf(request))
       IN  racers' =
              IF Fresh(analyticsCache, cacheKey, AnalyticsCacheDuration)
              THEN [racers EXCEPT ![r].pc = "done",
                                  ![r].response = Json(analyticsCache[cacheKey].data)]
              ELSE [racers EXCEPT ![r].pc = "calculate"]
    /\ UNCHANGED <<request, pc, response, calls, failures, scanVars, previewVars,
                   marketVars, mapperVars, buttonVars>>

\* calculateMarketAnalytics settles, on the trades getMarketEvents returned
RaceCalculate(r) ==
    /\ pc = "race" /\ racers[r].pc = "calculate"
    /\ \E draw \in IF Len(events) = 0 THEN RandomDraws ELSE {0} :
          racers' = [racers EXCEPT
                        ![r].pc = "store",
                        ![r].analytics =
                            CalculateMarketAnalytics(SortByTimestamp(events), draw, now)]
    /\ UNCHANGED <<request, pc, response, calls, failures, scanVars, previewVars,
                   marketVars, mapperVars, buttonVars>>

\* the rest of GET: the filter, the cache write and the response
RaceStore(r) ==
    /\ pc = "race" /\ racers[r].pc = "store"
    /\ LET timeRange == TimeRangeOf(request)
           filteredAnalytics ==
               FilteredAnalytics(racers[r].analytics, CutoffTime(timeRange, now))
       IN  /\ analyticsCache' =
                 MapSet(analyticsCache, CacheKey(request.marketId.chars, timeRange),
                        [data |-> filteredAnalytics, lastUpdated |-> now])
           /\ racers' = [racers EXCEPT ![r].pc = "done",
                                        ![r].response = Json(filteredAnalytics)]
    /\ UNCHANGED <<request, pc, response, calls, failures, scanVars, previewVars,
                   now, handled, priceCache, storedAt, postedAt, shareLogs, events,
                   analytics, quote, mapperVars, buttonVars>>

RaceSpec ==
    RaceInit /\ [][\E r \in 1..MaxRacers : RaceLookup(r) \/ RaceCalculate(r) \/ RaceStore(r)]_vars
-----------------------------------------------------------------------------
(* Properties of the admin-auto-discover scan *)

-----------------------------------------------------------------------------
(* ClaimWinningsButton.  request holds what the hooks give the component:   *)
(* the wallet connection and the user's shares of the winning option; mi    *)
(* holds the flags of getMarketInfo.  The button can be clicked only while  *)
(* it is rendered and enabled.  A write that is sent is followed by the     *)
(* receipt hook until the transaction succeeds or fails; the success effect *)
(* runs with the render that sees isSuccess.                                *)

AlreadyClaimedError ==
    [message |-> <<"A", "l", "r", "e", "a", "d", "y", "C", "l", "a", "i", "m", "e", "d">>,
     code |-> "CALL_EXCEPTION", reason |-> "AlreadyClaimed"]
UserRejectedError ==
    [message |-> <<"r", "e", "j", "e", "c", "t", "e", "d">>,
     code |-> "ACTION_REJECTED", reason |-> ""]
TimeoutError ==
    [message |-> <<"t", "i", "m", "e", "d", " ", "o", "u", "t">>,
     code |-> "TIMEOUT", reason |-> ""]
OtherRevertError ==
    [message |-> <<"r", "e", "v", "e", "r", "t", "e", "d">>,
     code |-> "CALL_EXCEPTION", reason |-> "ContractPaused"]

\* the test of the catch block: isAlreadyClaimed
IsAlreadyClaimed(error) ==
    LET Includes(text, part) ==
            \E k \in 0..(Len(text) - Len(part)) :
                SubSeq(text, k + 1, k + Len(part)) = part
    IN  \/ Includes(error.message, <<"A", "l", "r", "e", "a", "d", "y", "C", "l", "a", "i", "m", "e", "d">>)
        \/ Includes(error.message, <<"a", "l", "r", "e", "a", "d", "y", " ", "c", "l", "a", "i", "m", "e", "d">>)
        \/ Includes(error.message, <<"c", "l", "a", "i", "m", "e", "d">>)
        \/ error.code = "CALL_EXCEPTION"
        \/ error.reason = "AlreadyClaimed"

\* the render guards: the Button element is returned and not disabled
Rendered ==
    /\ request.isConnected
    /\ mi.resolved /\ ~mi.disputed /\ ~mi.invalidated
    /\ ~hasAlreadyClaimed
    /\ request.winningShares > 0
    /\ txStatus \notin {"pending", "confirming"}

ButtonInit ==
    /\ request \in [route : {"ClaimWinningsButton"}, isConnected : BOOLEAN,
                     winningShares : {0, 1}]
    /\ mi \in [ok : {TRUE}, resolved : BOOLEAN, disputed : BOOLEAN,
               invalidated : BOOLEAN]
    /\ pc = "button"
    /\ hasAlreadyClaimed = FALSE /\ txStatus = "idle"
    /\ claimedOnChain \in BOOLEAN
    /\ writes = 0 /\ lastError = NoError
    /\ response = NoResponse
    /\ calls = <<>> /\ failures = 0
    /\ maxMarketId = 0 /\ startId = 0 /\ endId = 0 /\ marketId = 0
    /\ withdrawals = <<>> /\ batchWithdrawals = <<>>
    /\ isCreator = FALSE
    /\ adminWithdrawals = <<>> /\ outage = FALSE
    /\ marketIdNum = 0
    /\ tradeEvents = <<>> /\ freeTokenEvents = <<>> /\ participants = <<>>
    /\ now = StartTime /\ handled = 0
    /\ analyticsCache = EmptyMap /\ priceCache = EmptyMap
    /\ storedAt = EmptyMap /\ postedAt = EmptyMap
    /\ shareLogs = <<>> /\ events = <<>> /\ analytics = JNull /\ quote = NoQuote
    /\ chain = {} /\ store = EmptyMap /\ handledEvents = <<>> /\ saved = <<>>
    /\ racers = <<>>

\* handleClaimWinnings, on a click: its guards repeat the render guards; the
\* write is sent to the wallet, or writeContract throws
HandleClaimWinnings ==
    /\ pc = "button" /\ Rendered /\ writes < MaxWrites
    /\ writes' = writes + 1
    /\ \/ /\ txStatus' = "confirming"
          /\ lastError' = NoError
          /\ UNCHANGED hasAlreadyClaimed
       \/ \E error \in {UserRejectedError, TimeoutError, OtherRevertError}
                         \cup {e \in {AlreadyClaimedError} : claimedOnChain} :
             /\ lastError' = error
             /\ hasAlreadyClaimed' = IF IsAlreadyClaimed(error) THEN TRUE
                                      ELSE hasAlreadyClaimed
             /\ txStatus' = "error"
    /\ UNCHANGED <<request, pc, response, calls, failures, scanVars, previewVars,
                   marketVars, mapperVars, racers, claimedOnChain>>

\* the transaction is mined: it pays the winnings unless they were paid
\* before; the effect on isSuccess sets the flag
TransactionSettles ==
    /\ pc = "button" /\ txStatus = "confirming"
    /\ IF claimedOnChain
       THEN /\ txStatus' = "error"
            /\ UNCHANGED <<hasAlreadyClaimed, claimedOnChain>>
       ELSE /\ txStatus' = "success"
            /\ claimedOnChain' = TRUE
            /\ hasAlreadyClaimed' = TRUE
    /\ UNCHANGED <<request, pc, response, calls, failures, scanVars, previewVars,
                   marketVars, mapperVars, racers, writes, lastError>>

\* the user claims the winnings of this market from another client
ClaimedElsewhere ==
    /\ pc = "button" /\ ~claimedOnChain
    /\ request.winningShares > 0 /\ mi.resolved /\ ~mi.disputed /\ ~mi.invalidated
    /\ claimedOnChain' = TRUE
    /\ UNCHANGED <<request, pc, response, calls, failures, scanVars, previewVars,
                   marketVars, mapperVars, racers, hasAlreadyClaimed, txStatus,
                   writes, lastError>>

ButtonSpec ==
    ButtonInit /\ [][HandleClaimWinnings \/ TransactionSettles \/ ClaimedElsewhere]_vars

IsDiscover == request.route = "admin-auto-discover"

InMarketLoop ==
    pc \in {"getMarketInfo", "getMarketFinancials", "checkIfFreeMarket",
            "getUnusedPrizePool", "getLPInfo"}

\* the calls of fn, in the order they were made
CallsOf(fn) == SelectSeq(calls, LAMBDA c : c.fn = fn)

\* the scan read marketCount and the contract answered n
CountAnswered(n) ==
    \E i \in DOMAIN calls :
        calls[i].fn = "marketCount" /\ calls[i].answer.ok /\ calls[i].answer.count = n

ScanDone == IsDiscover /\ pc = "done" /\ response.status = 200

\* C1: a scan reads getMarketInfo for the ids 0, 1, 2, ... in this order,
\* each once and none at or above marketCount; the ids are read in batches
\* [startId, endId) of at most batchSize ids that start at the multiples of
\* batchSize and end where the next begins or at marketCount; a finished
\* scan has read every id below marketCount, and for marketCount = 0 it has
\* read none and answers empty lists with totalCount = 0.
C1_BatchedScan ==
    IsDiscover =>
        LET reads == CallsOf("getMarketInfo") IN
        /\ \A i \in DOMAIN reads :
              reads[i].marketId = i - 1 /\ CountAnswered(maxMarketId)
              /\ reads[i].marketId < maxMarketId
        /\ InMarketLoop =>
              /\ startId % batchSize = 0 /\ startId < maxMarketId
              /\ endId - startId \in 1..batchSize
              /\ endId = maxMarketId \/ endId = startId + batchSize
              /\ endId <= maxMarketId
              /\ marketId \in startId..endId
              /\ Len(reads) = IF pc = "getMarketInfo" THEN marketId ELSE marketId + 1
              /\ pc # "getMarketInfo" => marketId < endId
        /\ pc \in {"delay", "batch"} =>
              Len(reads) = Min(startId + (IF pc = "delay" THEN batchSize ELSE 0),
                               maxMarketId)
        /\ \A n \in 0..MaxMarkets :
              ScanDone /\ CountAnswered(n) => Len(reads) = n
        /\ ScanDone /\ CountAnswered(0) =>
              /\ response.withdrawals =
                    [adminLiquidity |-> <<>>, prizePool |-> <<>>, lpRewards |-> <<>>]
              /\ response.totalCount = 0

\* a finished scan of two batches, a full one and one of a single market
C1_Witness ==
    /\ ScanDone /\ CountAnswered(batchSize + 1)
    /\ Len(CallsOf("getMarketInfo")) = batchSize + 1
    /\ calls[Len(calls)].marketId = batchSize

\* the candidates the scan holds: the returned list once the scan returned,
\* before that the pushed batches followed by the running batch
Found ==
    IF pc \in {"respond", "done"} THEN adminWithdrawals
    ELSE withdrawals \o batchWithdrawals

IsPrefix(a, b) == Len(a) <= Len(b) /\ SubSeq(b, 1, Len(a)) = a

\* the markets whose getMarketInfo read threw
FailedMarkets ==
    {calls[i].marketId : i \in {j \in DOMAIN calls :
        calls[j].fn = "getMarketInfo" /\ ~calls[j].answer.ok}}

ResponseCandidates ==
    response.withdrawals.adminLiquidity \o response.withdrawals.prizePool
        \o response.withdrawals.lpRewards

C2_State ==
    IsDiscover =>
        /\ \A m \in FailedMarkets : \A i \in DOMAIN Found : Found[i].marketId # m
        /\ pc = "done" /\ FailedMarkets # {} => response.status = 200
        /\ ScanDone =>
              /\ \A m \in FailedMarkets : \A i \in DOMAIN ResponseCandidates :
                    ResponseCandidates[i].marketId # m
              /\ response.totalCount = Len(Found)
              /\ \A n \in 1..MaxMarkets : CountAnswered(n) =>
                    \A id \in 0..(n - 1) :
                        \E i \in DOMAIN calls :
                            calls[i].fn = "getMarketInfo" /\ calls[i].marketId = id

\* C2: a market whose getMarketInfo read throws, with InvalidMarket or any
\* other error, has no candidate in the scan's lists or in the response; no
\* step of the scan, the failing read included, drops or reorders a
\* candidate already found, and the response counts all of them; a
\* finished scan has read every id below marketCount whichever reads threw;
\* and the request is answered with status 200.
C2_FailedMarketSkipped ==
    /\ []C2_State
    /\ [][IsDiscover => IsPrefix(Found, Found')]_vars

\* an InvalidMarket failure between two markets that have candidates
C2_Witness ==
    /\ ScanDone
    /\ \E i \in DOMAIN calls :
          /\ calls[i].fn = "getMarketInfo"
          /\ calls[i].answer = Thrown("InvalidMarket")
          /\ \E j \in DOMAIN adminWithdrawals :
                adminWithdrawals[j].marketId < calls[i].marketId
          /\ \E j \in DOMAIN adminWithdrawals :
                adminWithdrawals[j].marketId > calls[i].marketId
\* the markets whose getMarketInfo read was answered
ScannedMarkets ==
    {calls[i].marketId : i \in {j \in DOMAIN calls :
        calls[j].fn = "getMarketInfo" /\ calls[j].answer.ok}}

InfoOf(m) == CHOOSE a \in Answered("getMarketInfo", m) : a.ok

SameAddress(a, b) == ToLowerCase(a) = ToLowerCase(b)

UserIsCreator(m) == SameAddress(InfoOf(m).creator, request.userAddress)

\* the contract answered every getFreeMarketInfo read the scan made for m
IsFreeMarket(m) ==
    /\ Answered("getFreeMarketInfo", m) # {}
    /\ \A a \in Answered("getFreeMarketInfo", m) : a.ok

FreeInfoOf(m) == CHOOSE a \in Answered("getFreeMarketInfo", m) : TRUE

UnusedOf(m) ==
    FreeInfoOf(m).maxParticipants * FreeInfoOf(m).tokensPerParticipant
        - FreeInfoOf(m).currentParticipants * FreeInfoOf(m).tokensPerParticipant

EligiblePrizePool(m) ==
    /\ UserIsCreator(m) /\ InfoOf(m).resolved /\ IsFreeMarket(m)
    /\ ~FreeInfoOf(m).prizePoolWithdrawn
    /\ UnusedOf(m) > 0

EligibleAdminLiquidity(m) ==
    /\ UserIsCreator(m)
    /\ \E a \in Answered("getMarketFinancials", m) :
          a.ok /\ a.adminInitialLiquidity > 0 /\ ~a.adminLiquidityClaimed

EligibleLPRewards(m) ==
    \E a \in Answered("getLPInfo", m) :
        a.ok /\ ~a.rewardsClaimed /\ a.estimatedRewards > 0

Bit(b) == IF b THEN 1 ELSE 0

\* the number of calls of fn the scan made for market m
Reads(fn, m) ==
    Cardinality({i \in DOMAIN calls : calls[i].fn = fn /\ calls[i].marketId = m})

\* the positions of the candidates of type t for market m in the scan result
Candidates(m, t) ==
    {i \in DOMAIN adminWithdrawals :
        adminWithdrawals[i].marketId = m /\ adminWithdrawals[i].type = t}

\* C3: the scan reads getFreeMarketInfo for every scanned market the user
\* created (a second time when the market is resolved and the first read was
\* answered) and for no other; in the result of a finished scan a scanned
\* market m has a prizePool candidate exactly when the user is m's creator, m
\* is resolved, m is a free market (every getFreeMarketInfo read of m is
\* answered), the pool is not withdrawn and
\* maxParticipants*tokensPerParticipant - currentParticipants*tokensPerParticipant
\* is positive; the amount is that difference; no prizePool candidate the scan
\* ever holds has an amount <= 0.
C3_PrizePool ==
    IsDiscover =>
        /\ \A i \in DOMAIN Found : Found[i].type = "prizePool" => Found[i].amount > 0
        /\ ScanDone =>
              \A m \in ScannedMarkets :
                  /\ Reads("getFreeMarketInfo", m) =
                        IF ~UserIsCreator(m) THEN 0
                        ELSE IF InfoOf(m).resolved
                                /\ \E a \in Answered("getFreeMarketInfo", m) : a.ok
                             THEN 2
                        ELSE 1
                  /\ Candidates(m, "prizePool") # {} <=> EligiblePrizePool(m)
                  /\ \A i \in Candidates(m, "prizePool") :
                        adminWithdrawals[i].amount = UnusedOf(m)

\* the example of the specification: 100 * 5 - 40 * 5 = 300
C3_Witness ==
    /\ ScanDone
    /\ \E m \in ScannedMarkets :
          /\ Answered("getFreeMarketInfo", m) = {FreeInfo(100, 5, 40, FALSE)}
          /\ \E i \in Candidates(m, "prizePool") : adminWithdrawals[i].amount = 300

\* C4: every adminLiquidity or prizePool candidate of the result belongs to a
\* market whose creator is the requested address, compared without regard to
\* case; getMarketFinancials is read once for every scanned market the user
\* created; a scanned market has an adminLiquidity candidate exactly when the
\* user is its creator and getMarketFinancials reports an initial admin
\* liquidity > 0 that is not claimed, and the amount is that liquidity.
C4_CreatorOnly ==
    ScanDone =>
        /\ \A i \in DOMAIN adminWithdrawals :
              adminWithdrawals[i].type \in {"adminLiquidity", "prizePool"} =>
                  /\ adminWithdrawals[i].marketId \in ScannedMarkets
                  /\ UserIsCreator(adminWithdrawals[i].marketId)
        /\ \A m \in ScannedMarkets :
              /\ Reads("getMarketFinancials", m) = Bit(UserIsCreator(m))
              /\ Candidates(m, "adminLiquidity") # {} <=> EligibleAdminLiquidity(m)
              /\ \A i \in Candidates(m, "adminLiquidity") :
                    \A a \in Answered("getMarketFinancials", m) :
                        adminWithdrawals[i].amount = a.adminInitialLiquidity

\* a candidate for a market whose creator is spelled in another case
C4_Witness ==
    /\ ScanDone
    /\ \E m \in ScannedMarkets :
          /\ InfoOf(m).creator # request.userAddress
          /\ Candidates(m, "adminLiquidity") # {}

\* C5: for every scanned market getLPInfo is read once, creator or not (and
\* never for a market whose getMarketInfo read threw); the market has an
\* lpRewards candidate exactly when the answer says the rewards are not
\* claimed and the estimated rewards are > 0, with that estimate as amount.
C5_LPRewards ==
    ScanDone =>
        /\ \A m \in ScannedMarkets :
              /\ Reads("getLPInfo", m) = 1
              /\ Candidates(m, "lpRewards") # {} <=> EligibleLPRewards(m)
              /\ \A i \in Candidates(m, "lpRewards") :
                    \A a \in Answered("getLPInfo", m) :
                        adminWithdrawals[i].amount = a.estimatedRewards
        /\ \A i \in DOMAIN calls :
              calls[i].fn = "getLPInfo" => calls[i].marketId \in ScannedMarkets

\* LP rewards found on a market the user did not create
C5_Witness ==
    /\ ScanDone
    /\ \E m \in ScannedMarkets :
          ~UserIsCreator(m) /\ Candidates(m, "lpRewards") # {}

\* C6: a market contributes as many candidates as it has eligible
\* categories, one of each eligible type, and no two candidates of the
\* result share their (marketId, type).
C6_IndependentCategories ==
    ScanDone =>
        /\ \A m \in ScannedMarkets :
              /\ Cardinality({i \in DOMAIN adminWithdrawals :
                                  adminWithdrawals[i].marketId = m})
                   = Bit(EligibleAdminLiquidity(m)) + Bit(EligiblePrizePool(m))
                        + Bit(EligibleLPRewards(m))
              /\ Cardinality(Candidates(m, "adminLiquidity")) = Bit(EligibleAdminLiquidity(m))
              /\ Cardinality(Candidates(m, "prizePool")) = Bit(EligiblePrizePool(m))
              /\ Cardinality(Candidates(m, "lpRewards")) = Bit(EligibleLPRewards(m))
        /\ \A i, j \in DOMAIN adminWithdrawals :
              /\ adminWithdrawals[i].marketId = adminWithdrawals[j].marketId
              /\ adminWithdrawals[i].type = adminWithdrawals[j].type
              => i = j
        /\ \A i \in DOMAIN adminWithdrawals :
              adminWithdrawals[i].marketId \in ScannedMarkets

\* a market eligible for all three categories
C6_Witness ==
    /\ ScanDone
    /\ \E m \in ScannedMarkets :
          /\ EligibleAdminLiquidity(m) /\ EligiblePrizePool(m) /\ EligibleLPRewards(m)
          /\ Cardinality({i \in DOMAIN adminWithdrawals :
                              adminWithdrawals[i].marketId = m}) = 3
\* the integer a string of decimal digits denotes
RECURSIVE DecimalValue(_)
DecimalValue(chars) ==
    IF chars = <<>> THEN 0
    ELSE 10 * DecimalValue(SubSeq(chars, 1, Len(chars) - 1))
            + DigitValue(chars[Len(chars)])

IsDecimal(chars) ==
    /\ chars # <<>>
    /\ \A i \in DOMAIN chars : DigitValue(chars[i]) >= 0
    /\ Len(chars) > 1 => chars[1] # "0"

\* the positions of the candidates of type t in the scan result, ascending
RECURSIVE PositionsOf(_, _)
PositionsOf(t, n) ==
    IF n = 0 THEN <<>>
    ELSE IF adminWithdrawals[n].type = t THEN Append(PositionsOf(t, n - 1), n)
    ELSE PositionsOf(t, n - 1)

RECURSIVE SumOfListed(_, _)
SumOfListed(list, n) ==
    IF n = 0 THEN 0 ELSE SumOfListed(list, n - 1) + DecimalValue(list[n].amount)

\* C7: in a success response every list holds the found candidates of its
\* type, in the order found, with the amount as the decimal string of the
\* integer; every per-category total is the decimal string of the exact sum
\* of its list, totals.total that of the sum of the three totals, and
\* totalCount the sum of the three list lengths.
C7_GroupedTotals ==
    ScanDone =>
        /\ \A t \in {"adminLiquidity", "prizePool", "lpRewards"} :
              LET list == response.withdrawals[t]
                  at == PositionsOf(t, Len(adminWithdrawals))
              IN  /\ Len(list) = Len(at)
                  /\ \A k \in DOMAIN list :
                        /\ list[k].type = t
                        /\ list[k].marketId = adminWithdrawals[at[k]].marketId
                        /\ IsDecimal(list[k].amount)
                        /\ DecimalValue(list[k].amount) = adminWithdrawals[at[k]].amount
                  /\ IsDecimal(response.totals[t])
                  /\ DecimalValue(response.totals[t]) = SumOfListed(list, Len(list))
        /\ IsDecimal(response.totals.total)
        /\ DecimalValue(response.totals.total) =
              DecimalValue(response.totals.adminLiquidity)
                + DecimalValue(response.totals.prizePool)
                + DecimalValue(response.totals.lpRewards)
        /\ response.totalCount =
              Len(response.withdrawals.adminLiquidity)
                + Len(response.withdrawals.prizePool)
                + Len(response.withdrawals.lpRewards)

\* a response with several candidates in every list
C7_Witness ==
    /\ ScanDone
    /\ Len(response.withdrawals.adminLiquidity) >= 2
    /\ Len(response.withdrawals.prizePool) >= 2
    /\ Len(response.withdrawals.lpRewards) >= 2
    /\ DecimalValue(response.totals.total) > 50
-----------------------------------------------------------------------------
(* Properties of the batch-distribution preview *)

IsPreview == request.route = "auto-preview-batch-distribution"

\* the preview's getMarketInfo read was answered with a
MarketInfoAnswered(a) ==
    /\ IsPreview /\ calls # <<>>
    /\ calls[1].fn = "getMarketInfo" /\ calls[1].answer = a /\ a.ok

\* C8: resolved is checked before disputed. Once getMarketInfo has answered
\* that the market is unresolved (disputed or not) the request is answered
\* 200 with the not-resolved message, once it has answered resolved and
\* disputed with the disputed message, both with empty recipients and
\* amounts; and the getMarketInfo read stays the only upstream call.
C8_PreconditionOrder ==
    \A a \in [ok : {TRUE}, resolved : BOOLEAN, disputed : BOOLEAN, invalidated : BOOLEAN] :
        MarketInfoAnswered(a) /\ (~a.resolved \/ a.disputed) =>
            /\ pc = "done"
            /\ Len(calls) = 1
            /\ response.status = 200
            /\ response.recipients = <<>> /\ response.amounts = <<>>
            /\ response.message =
                  IF ~a.resolved
                  THEN "Market is not resolved yet. Cannot distribute winnings."
                  ELSE "Market is disputed. Cannot distribute winnings."

\* an unresolved market that is also disputed gets the not-resolved message
C8_Witness ==
    /\ \E a \in [ok : {TRUE}, resolved : {FALSE}, disputed : {TRUE}, invalidated : BOOLEAN] :
          MarketInfoAnswered(a)
    /\ response.status = 200
    /\ response.message = "Market is not resolved yet. Cannot distribute winnings."

\* the preview passed both preconditions
Distributable ==
    \E a \in [ok : {TRUE}, resolved : {TRUE}, disputed : {FALSE}, invalidated : BOOLEAN] :
        MarketInfoAnswered(a)

LogsAnswered(fn) ==
    \E i \in DOMAIN calls : calls[i].fn = fn /\ calls[i].answer.ok

LogsOf(fn) == (CHOOSE c \in Range(calls) : c.fn = fn /\ c.answer.ok).answer.logs

\* every address that appears in an event of the market
EventAddresses ==
    {LogsOf("getLogs:TradeExecuted")[i].buyer : i \in DOMAIN LogsOf("getLogs:TradeExecuted")}
    \cup {LogsOf("getLogs:TradeExecuted")[i].seller : i \in DOMAIN LogsOf("getLogs:TradeExecuted")}
    \cup {LogsOf("getLogs:FreeTokensClaimed")[i].user : i \in DOMAIN LogsOf("getLogs:FreeTokensClaimed")}

\* the distinct non-zero addresses, one per address whatever its case
ExpectedParticipants == {ToLowerCase(a) : a \in EventAddresses \ {ZeroAddress}}

EventsFetched ==
    /\ Distributable
    /\ LogsAnswered("getLogs:TradeExecuted") /\ LogsAnswered("getLogs:FreeTokensClaimed")

WinnerCalls == {i \in DOMAIN calls : calls[i].fn = "getEligibleWinners"}

\* C9: getEligibleWinners is called only for a resolved, non-disputed market
\* whose events name a participant, at most once, and with the distinct
\* non-zero event addresses (one per address whatever its case), each once;
\* a finished preview of such a market has made the call, and when the
\* contract answered, totalParticipants is the number of those addresses,
\* recipients the contract's list and eligibleCount its length.
C9_EligibleWinners ==
    IsPreview =>
        /\ Cardinality(WinnerCalls) <= 1
        /\ \A i \in WinnerCalls :
              /\ EventsFetched /\ ExpectedParticipants # {}
              /\ calls[i].marketId = marketIdNum
              /\ Range(calls[i].args) = ExpectedParticipants
              /\ Len(calls[i].args) = Cardinality(ExpectedParticipants)
              /\ calls[i].answer.ok =>
                    /\ response.status = 200
                    /\ response.totalParticipants = Cardinality(ExpectedParticipants)
                    /\ response.recipients = calls[i].answer.recipients
                    /\ response.eligibleCount = Len(calls[i].answer.recipients)
                    /\ Len(response.amounts) = Len(calls[i].answer.amounts)
        /\ pc = "done" /\ EventsFetched /\ ExpectedParticipants # {} =>
              Cardinality(WinnerCalls) = 1

\* the example of the specification: one trade, buyer A and seller B, and
\* the contract answers [A] with 1e18
C9_Witness ==
    /\ IsPreview /\ pc = "done" /\ EventsFetched
    /\ LogsOf("getLogs:TradeExecuted") = <<[buyer |-> UserA, seller |-> UserB]>>
    /\ LogsOf("getLogs:FreeTokensClaimed") = <<>>
    /\ \E i \in WinnerCalls :
          /\ calls[i].answer.ok
          /\ calls[i].answer.recipients = <<ToLowerCase(UserA)>>
          /\ calls[i].answer.amounts = <<Amount(UnitScale, 0)>>
    /\ response.totalParticipants = 2
    /\ response.eligibleCount = 1
    /\ response.amounts = << <<"1">> >>

\* C10: a finished preview of a resolved, non-disputed market whose events
\* name no participant (no event at all, or only the zero address) answers
\* 200 with recipients = [], amounts = [], totalParticipants = 0,
\* eligibleCount = 0 and a message, without calling getEligibleWinners.
C10_NoParticipants ==
    IsPreview /\ pc = "done" /\ EventsFetched /\ ExpectedParticipants = {} =>
        /\ response.status = 200
        /\ response.recipients = <<>> /\ response.amounts = <<>>
        /\ response.totalParticipants = 0
        /\ "eligibleCount" \in DOMAIN response
        /\ response.eligibleCount = 0
        /\ "message" \in DOMAIN response
        /\ WinnerCalls = {}

\* C11: a preview of a market that getMarketInfo reports as invalidated never
\* asks the contract for the eligible winners, and a 200 answer to it carries
\* a message and empty recipients and amounts.
C11_InvalidatedRejected ==
    \A a \in [ok : {TRUE}, resolved : BOOLEAN, disputed : BOOLEAN, invalidated : {TRUE}] :
        MarketInfoAnswered(a) =>
            /\ WinnerCalls = {}
            /\ pc = "done" /\ response.status = 200 =>
                  /\ "message" \in DOMAIN response
                  /\ response.recipients = <<>> /\ response.amounts = <<>>
\* s without its trailing "0" characters
RECURSIVE StripZeros(_)
StripZeros(s) ==
    IF s # <<>> /\ s[Len(s)] = "0" THEN StripZeros(SubSeq(s, 1, Len(s) - 1)) ELSE s

\* the decimal digits of n, padded with zeros on the left to width w
RECURSIVE Padded(_, _)
Padded(n, w) == IF w = 0 THEN <<>> ELSE Append(Padded(n \div 10, w - 1), DigitChar(n % 10))

\* the decimal representation of amount / 10^18
ExactDecimal(amount) ==
    LET fraction == StripZeros(Padded(amount.count % UnitScale, 3) \o Padded(amount.dust, 15))
    IN  NatToString(amount.count \div UnitScale)
            \o (IF fraction = <<>> THEN <<>> ELSE <<".">> \o fraction)

\* C12: when getEligibleWinners has answered, the response carries one amount
\* per amount of the answer, in the answer's order, and each is the decimal
\* representation of the integer amount divided by 10^18.
C12_ExactAmounts ==
    IsPreview =>
        \A i \in WinnerCalls :
            calls[i].answer.ok =>
                /\ Len(response.amounts) = Len(calls[i].answer.amounts)
                /\ \A k \in DOMAIN response.amounts :
                       response.amounts[k] = ExactDecimal(calls[i].answer.amounts[k])
\* an upstream call of fn threw
Failed(fn) == \E i \in DOMAIN calls : calls[i].fn = fn /\ ~calls[i].answer.ok

UnexpectedFailure ==
    \/ IsDiscover /\ Failed("marketCount")
    \/ IsPreview /\ \E fn \in {"getMarketInfo", "getLogs:TradeExecuted",
                                 "getLogs:FreeTokensClaimed", "getEligibleWinners"} :
                        Failed(fn)

\* C14: once the marketCount read of a scan, or the getMarketInfo, getLogs or
\* getEligibleWinners call of a preview has thrown, the request is never
\* answered with a success payload, and its answer is a 500 with an error
\* message.
C14_UpstreamFailure ==
    UnexpectedFailure =>
        /\ response.status # 200
        /\ pc = "done" => response.status = 500 /\ "error" \in DOMAIN response

-----------------------------------------------------------------------------
\* the required parameter of the request (userAddress or marketId) is absent
ParameterMissing ==
    IF request.route = "admin-auto-discover"
    THEN request.userAddress = NoAddress
    ELSE request.marketId \in {JUndefined, JNull}

\* while a request without its parameter is handled, nothing was read from
\* the chain, the handler is at its entry or has answered, and the answer is 400
C13_Validated ==
    ParameterMissing =>
        /\ calls = <<>>
        /\ pc \in {EntryOf(request), "done"}
        /\ pc = "done" => response.status = 400 /\ "error" \in DOMAIN response

\* C13: every handler (admin-auto-discover POST, analytics GET and POST,
\* current-price GET, preview POST) answers 400 when its required parameter is
\* missing; it does so in its first step, before any contract read or log
\* fetch, and the step that answers leaves both caches as they were.
C13_MissingParameter ==
    /\ []C13_Validated
    /\ [][ParameterMissing' /\ pc # "done" /\ pc' = "done" =>
             /\ pc = EntryOf(request)
             /\ analyticsCache' = analyticsCache
             /\ priceCache' = priceCache]_vars

\* a second request, without marketId, answered 400 while the cache of its
\* route holds an entry
C13_Witness ==
    /\ ParameterMissing /\ pc = "done" /\ response.status = 400
    /\ handled = 1
    /\ analyticsCache # EmptyMap \/ priceCache # EmptyMap

-----------------------------------------------------------------------------
\* calculateMarketAnalytics returned for a market whose fetch gave zero trade
\* events or failed
NoEventsFetched ==
    /\ request.route = "market/analytics" /\ analytics # JNull
    /\ \/ \E i \in DOMAIN calls :
             /\ calls[i].fn = "getLogs:SharesPurchased"
             /\ calls[i].answer.ok /\ calls[i].answer.logs = <<>>
       \/ Failed("getLogs:SharesPurchased")
       \/ Failed("getBlock")

\* the fields of a real payload and of its history entries
AnalyticsFields ==
    {"priceHistory", "volumeHistory", "totalVolume", "totalTrades",
     "priceChange24h", "volumeChange24h", "lastUpdated"}
PriceHistoryFields == {"date", "timestamp", "optionA", "optionB", "volume", "trades"}
VolumeHistoryFields == {"date", "timestamp", "volume", "trades"}

\* the entries are of consecutive days, oldest first
ConsecutiveDays(history) ==
    \A i \in 1..(Len(history) - 1) : history[i + 1].date = history[i].date + 1

\* the shape of a fallback with n entries per series
FallbackShape(n) ==
    /\ DOMAIN analytics = AnalyticsFields
    /\ Len(analytics.priceHistory) = n /\ Len(analytics.volumeHistory) = n
    /\ ConsecutiveDays(analytics.priceHistory)
    /\ ConsecutiveDays(analytics.volumeHistory)
    /\ \A i \in DOMAIN analytics.priceHistory :
          DOMAIN analytics.priceHistory[i] = PriceHistoryFields
    /\ \A i \in DOMAIN analytics.volumeHistory :
          DOMAIN analytics.volumeHistory[i] = VolumeHistoryFields

\* C16: when a market has zero trade events, or the event fetch fails, the
\* aggregator returns a synthetic fallback whose priceHistory and volumeHistory
\* each have exactly 7 entries, one per consecutive day, with the fields of a
\* real payload.
C16_SevenDayFallback == NoEventsFetched => FallbackShape(7)

-----------------------------------------------------------------------------
\* this step is an analytics POST that accepts its marketId
PostAccepted ==
    /\ request.route = "market/analytics" /\ pc = "POST"
    /\ pc' = "done" /\ response'.status = 200

\* the entry of the pair (marketId, timeRange) is the same before and after
\* the step
EntryUnchanged(pair) ==
    LET key == CacheKey(pair[1], pair[2])
    IN  /\ (key \in DOMAIN analyticsCache') = (key \in DOMAIN analyticsCache)
        /\ key \in DOMAIN analyticsCache => analyticsCache'[key] = analyticsCache[key]

\* C18: an analytics POST with {marketId: m} leaves no entry for market m under
\* any timeRange, and leaves the entries of every other market as they were.
C18_InvalidatesOneMarket ==
    [][PostAccepted =>
          \A pair \in DOMAIN storedAt :
              IF pair[1] = ToStringOf(request.marketId)
              THEN CacheKey(pair[1], pair[2]) \notin DOMAIN analyticsCache'
              ELSE EntryUnchanged(pair)]_vars

\* the pairs (marketId, timeRange) the requests ask for
Pairs == {Market1, Market10} \X {Range7d, Range24h}

\* an entry for the pair was stored less than 5 minutes ago and no POST for
\* the pair's market was accepted since
Cacheable(pair) ==
    /\ pair \in DOMAIN storedAt
    /\ now - storedAt[pair].time < AnalyticsCacheDuration
    /\ ~(pair[1] \in DOMAIN postedAt /\ postedAt[pair[1]] > storedAt[pair].request)

\* a GET for the pair arriving now is answered from the cache
ServedFromCache(pair) ==
    Fresh(analyticsCache, CacheKey(pair[1], pair[2]), AnalyticsCacheDuration)

\* C17: over any sequence of analytics requests, a GET for (marketId,
\* timeRange) is answered from the cache exactly when an entry for that pair
\* was stored less than 5 minutes earlier and not invalidated since, and what
\* is served is the payload stored for that pair; a GET that fetches events
\* is one whose pair had no such entry.
C17_CacheSemantics ==
    request.route = "market/analytics" =>
        /\ \A pair \in Pairs :
              /\ ServedFromCache(pair) <=> Cacheable(pair)
              /\ ServedFromCache(pair) =>
                    analyticsCache[CacheKey(pair[1], pair[2])].data = storedAt[pair].data
        /\ pc \in {"getShareLogs", "getBlock"} =>
              ~Cacheable(<<request.marketId.chars, TimeRangeOf(request)>>)

-----------------------------------------------------------------------------
\* the fields of a price payload
PriceFields == {"currentPriceA", "currentPriceB", "totalShares", "lastTrade", "timestamp"}

\* one of the contract read, the log fetch and the block fetch of the request
\* failed
PriceUpstreamFailed ==
    Failed("getMarketInfo") \/ Failed("getLogs:SharesPurchased") \/ Failed("getBlock")

\* an earlier request stored a payload for marketId m less than 30 seconds ago
StoredRecently(m) ==
    /\ <<m>> \in DOMAIN storedAt
    /\ storedAt[<<m>>].request < handled
    /\ now - storedAt[<<m>>].time < PriceCacheDuration

\* C19: a current-price GET with a marketId never hard-fails on upstream
\* failure: whichever of the contract read, the log fetch and the block fetch
\* fails, the answer is a success payload with the fields currentPriceA,
\* currentPriceB, totalShares, lastTrade and timestamp (the mock data, which
\* has a last trade); and a payload stored for that marketId less than 30
\* seconds earlier is served as it was stored, without any upstream call.
C19_NeverHardFails ==
    request.route = "market/current-price" /\ Truthy(request.marketId) =>
        /\ pc = "done" =>
              /\ response.status = 200
              /\ DOMAIN response.data = PriceFields
        /\ pc = "done" /\ PriceUpstreamFailed => response.data.lastTrade # JNull
        /\ StoredRecently(request.marketId.chars) =>
              /\ calls = <<>>
              /\ pc \in {"GET", "done"}
              /\ pc = "done" =>
                    response = Json(storedAt[<<request.marketId.chars>>].data)

\* a second request for the marketId, made once the stored payload is 30
\* seconds old, whose block fetch failed and which was answered 200
C19_Witness ==
    /\ request.route = "market/current-price" /\ pc = "done"
    /\ handled = 1 /\ Failed("getBlock")
    /\ response.status = 200 /\ response.data.lastTrade # JNull

-----------------------------------------------------------------------------
\* the volume of all events up to and including the day of a bucket
CumulativeVolume(date) ==
    SumOf(SelectSeq(events, LAMBDA ev : DateOf(ev.timestamp) <= date), "amount")

\* C15: for every non-empty list of trade events with non-negative amounts,
\* every bucket of the computed priceHistory has optionA and optionB within
\* [0, 1] and |optionA + optionB - 1| <= 0.001 after the rounding to 3
\* decimals (prices are in thousandths here); a bucket whose cumulative
\* volume is zero has 0.5 and 0.5.
C15_PricesInRange ==
    analytics # JNull /\ events # <<>> =>
        \A i \in DOMAIN analytics.priceHistory :
            LET bucket == analytics.priceHistory[i]
                total == bucket.optionA + bucket.optionB
            IN  /\ 0 <= bucket.optionA /\ bucket.optionA <= 1000
                /\ 0 <= bucket.optionB /\ bucket.optionB <= 1000
                /\ 999 <= total /\ total <= 1001
                /\ CumulativeVolume(bucket.date) = 0 =>
                      bucket.optionA = 500 /\ bucket.optionB = 500

\* a first day without volume (0.5 / 0.5) and a second day on which both
\* prices round up, 1/16 to 0.063 and 15/16 to 0.938
C15_Witness ==
    /\ analytics # JNull /\ Len(events) = 3
    /\ Len(analytics.priceHistory) = 2
    /\ analytics.priceHistory[1].optionA = 500
    /\ analytics.priceHistory[1].volume = 0
    /\ analytics.priceHistory[2].optionA + analytics.priceHistory[2].optionB = 1001

-----------------------------------------------------------------------------
\* two events are the same log: same kind, transaction hash and log index
SameLog(e1, e2) ==
    /\ e1.kind = e2.kind
    /\ e1.transaction.hash = e2.transaction.hash
    /\ e1.logIndex = e2.logIndex

\* the positions of the events that no later event of the same log followed
LastOfLog ==
    {i \in DOMAIN handledEvents :
        \A j \in DOMAIN handledEvents :
            j > i => ~SameLog(handledEvents[i], handledEvents[j])}

\* the row carries the parameters and the envelope of the event, unchanged
RowOfEvent(row, event) ==
    /\ DOMAIN row = DOMAIN event.params
                        \cup {"id", "blockNumber", "blockTimestamp", "transactionHash"}
    /\ \A f \in DOMAIN event.params : row[f] = event.params[f]
    /\ row.blockNumber = event.block.number
    /\ row.blockTimestamp = event.block.timestamp
    /\ row.transactionHash = event.transaction.hash

\* the keys of the rows of the event in the table of its kind
RowsOfEvent(event) ==
    {key \in DOMAIN store : key[1] = event.kind /\ RowOfEvent(store[key], event)}

\* the events, each the last of its log, that a row of the event would also
\* be a row of: the envelope and the parameters do not tell them apart
Alike(event) ==
    {i \in LastOfLog :
        /\ handledEvents[i].kind = event.kind
        /\ handledEvents[i].params = event.params
        /\ handledEvents[i].block = event.block
        /\ handledEvents[i].transaction = event.transaction}

\* every log has exactly one row in the table of its kind, with the
\* parameters and the envelope of the event last handled for it, and the
\* tables hold nothing else: an event of the same (transactionHash, logIndex)
\* handled later took the place of the earlier one
C20_OneRow ==
    /\ \A i \in LastOfLog :
          Cardinality(RowsOfEvent(handledEvents[i]))
              = Cardinality(Alike(handledEvents[i]))
    /\ \A key \in DOMAIN store :
          \E i \in LastOfLog : key \in RowsOfEvent(handledEvents[i])

\* C20: for every event kind, the handler writes exactly one row whose id
\* depends only on (transactionHash, logIndex) and whose fields are the
\* event's parameters and the envelope's blockNumber, blockTimestamp and
\* transactionHash, copied unchanged; handling the same event twice leaves the
\* store equal to the store after handling it once.
C20_MapperRows ==
    /\ []C20_OneRow
    /\ [][/\ handledEvents # <<>>
           /\ handledEvents' = Append(handledEvents, handledEvents[Len(handledEvents)])
           => store' = store]_vars

\* an event handled twice in a row, after which its table holds one row
C20_Witness ==
    /\ Len(handledEvents) = 2 /\ handledEvents[1] = handledEvents[2]
    /\ handledEvents[1].kind = "MarketCreated"
    /\ Cardinality(DOMAIN store) = 1

-----------------------------------------------------------------------------
\* the (transactionHash, logIndex) of an event
LogOf(event) == <<event.transaction.hash, event.logIndex>>

\* each table holds one row per (transactionHash, logIndex) handled for its
\* kind, and events of different (transactionHash, logIndex) were saved
\* under different ids
C21_OneRowPerLog ==
    /\ \A k \in EventKinds :
          Cardinality({key \in DOMAIN store : key[1] = k})
              = Cardinality({LogOf(handledEvents[i]) :
                    i \in {j \in DOMAIN handledEvents : handledEvents[j].kind = k}})
    /\ \A i, j \in DOMAIN handledEvents :
          LogOf(handledEvents[i]) # LogOf(handledEvents[j]) => saved[i] # saved[j]

\* C21: after any sequence of handled events each entity table holds exactly
\* one row per distinct (transactionHash, logIndex) observed for that kind;
\* two events with different (transactionHash, logIndex) never share an id;
\* and handling an event leaves every row created for an event of another
\* (transactionHash, logIndex), or of another kind, in place and unchanged.
C21_UniqueRows ==
    /\ []C21_OneRowPerLog
    /\ [][\A i \in DOMAIN handledEvents :
             LET new == handledEvents'[Len(handledEvents')]
                 key == <<handledEvents[i].kind, saved[i]>>
             IN  /\ Len(handledEvents') = Len(handledEvents) + 1
                 /\ \/ LogOf(handledEvents[i]) # LogOf(new)
                    \/ handledEvents[i].kind # new.kind
                 => key \in DOMAIN store' /\ store'[key] = store[key]]_vars

\* two events of one kind and one transaction, alike but for the log index,
\* each with its row
C21_Witness ==
    /\ Len(handledEvents) = 2
    /\ handledEvents[1].kind = "Claimed" /\ handledEvents[2].kind = "Claimed"
    /\ handledEvents[1].transaction = handledEvents[2].transaction
    /\ handledEvents[1].params = handledEvents[2].params
    /\ handledEvents[1].logIndex # handledEvents[2].logIndex
    /\ Cardinality(DOMAIN store) = 2

-----------------------------------------------------------------------------
(* C22: every request is answered, once; a scan takes ceil(n / 10) batches *)

\* the scan of the request has left the batch loop
ScanLeft == IsDiscover /\ pc \in {"respond", "done"} /\ \E n \in 1..(MaxMarkets + 1) : CountAnswered(n)

\* C22: under FairSpec every request of the four routes is eventually
\* answered, whatever calls fail; it has a response exactly when the handler
\* has returned, and the response of a request is set once and not replaced;
\* a scan over n markets leaves the batch loop after ceil(n / 10) batches of
\* ten ids, having read each of the n markets, also when every getMarketInfo
\* read of the scan fails.
C22_Terminates ==
    /\ (pc # "done") ~> (pc = "done")
    /\ []((pc = "done") <=> (response # NoResponse))
    /\ [][response' # response =>
            \/ response = NoResponse /\ pc # "done" /\ pc' = "done"
            \/ pc = "done" /\ response' = NoResponse /\ handled' = handled + 1]_vars
    /\ [](ScanLeft => /\ startId = 10 * ((maxMarketId + 9) \div 10)
                       /\ Len(CallsOf("getMarketInfo")) = maxMarketId)

\* a scan over eleven markets whose every per-market read failed is answered
\* after two batches
C22_Witness ==
    /\ IsDiscover /\ pc = "done" /\ response.status = 200
    /\ CountAnswered(MaxMarkets) /\ startId = 10 * ((MaxMarkets + 9) \div 10)
    /\ Len(calls) = MaxMarkets + 1
    /\ \A i \in 2..Len(calls) : calls[i].fn = "getMarketInfo" /\ ~calls[i].answer.ok

-----------------------------------------------------------------------------
(* C23: the reads of a scan are made one after the other *)

\* the positions in calls of the per-market reads of the scan
MarketReads == {i \in DOMAIN calls : calls[i].fn # "marketCount"}

\* C23: in a scan every read is issued by a step of its own, after the reads
\* before it have settled (calls only grows, by one settled call a step); the
\* reads of a market come after all reads of the markets before it and begin
\* with its getMarketInfo read at the head of the market loop; no market of
\* a later batch is read before the pause that follows the batch, and
\* startId moves only in that pause, once the batch has gone through its ids.
C23_OneReadAtATime ==
    /\ [](IsDiscover =>
            /\ \A i, j \in MarketReads :
                  i < j => /\ calls[i].marketId <= calls[j].marketId
                           /\ calls[j].fn = "getMarketInfo"
                                 => calls[i].marketId < calls[j].marketId
            /\ \A i \in MarketReads :
                  /\ calls[i].marketId < startId + 10
                  /\ \E j \in MarketReads :
                        /\ j <= i /\ calls[j].fn = "getMarketInfo"
                        /\ calls[j].marketId = calls[i].marketId)
    /\ [][IsDiscover /\ calls' # calls =>
            /\ Len(calls') = Len(calls) + 1
            /\ SubSeq(calls', 1, Len(calls)) = calls
            /\ calls'[Len(calls')].fn = "getMarketInfo" <=> pc = "getMarketInfo"
            /\ pc \notin {"batch", "delay", "respond", "done"}]_vars
    /\ [][IsDiscover /\ startId' # startId =>
            /\ pc = "delay" /\ marketId >= endId
            /\ startId' = startId + 10 /\ calls' = calls]_vars

\* a scan over eleven markets has read the first market of the second batch
\* after two reads of the last market of the first
C23_Witness ==
    /\ IsDiscover /\ pc = "done" /\ CountAnswered(MaxMarkets) /\ ~outage
    /\ \E i, j, k \in MarketReads :
          /\ i < j /\ j < k
          /\ calls[i].fn = "getMarketInfo" /\ calls[i].marketId = 9
          /\ calls[j].fn # "getMarketInfo" /\ calls[j].marketId = 9
          /\ calls[k].marketId = 10

-----------------------------------------------------------------------------
(* C27: a failed category read costs its own category only *)

\* the category whose candidate depends on a read
CategoryOf(fn) ==
    CASE fn = "getMarketFinancials" -> "adminLiquidity"
      [] fn = "getFreeMarketInfo" -> "prizePool"
      [] fn = "getLPInfo" -> "lpRewards"

EligibleFor(t, m) ==
    CASE t = "adminLiquidity" -> EligibleAdminLiquidity(m)
      [] t = "prizePool" -> EligiblePrizePool(m)
      [] t = "lpRewards" -> EligibleLPRewards(m)

\* the positions in calls of the failed category reads
FailedCategoryReads ==
    {i \in DOMAIN calls :
        /\ calls[i].fn \in {"getMarketFinancials", "getFreeMarketInfo", "getLPInfo"}
        /\ ~calls[i].answer.ok}

\* C27: getUnusedPrizePool reads getFreeMarketInfo again only after
\* checkIfFreeMarket's read was answered, and no read of a scan follows a
\* failed read of the same function for the same market; in a finished scan,
\* a market m with a failed getMarketFinancials, getFreeMarketInfo or getLPInfo
\* read has no candidate of the category of that read, has the reads of the
\* categories after it made (getFreeMarketInfo for a creator, getLPInfo for
\* everyone) and has a candidate of each other category exactly when that
\* category is due, and every market after m has its getMarketInfo read.
C27_FailureIsolated ==
    IsDiscover =>
        /\ pc = "getUnusedPrizePool" => IsFreeMarket(marketId)
        /\ \A i \in FailedCategoryReads : \A j \in DOMAIN calls :
              j > i => ~(calls[j].fn = calls[i].fn /\ calls[j].marketId = calls[i].marketId)
        /\ ScanDone =>
              \A i \in FailedCategoryReads :
                  LET m == calls[i].marketId IN
                  /\ m \in ScannedMarkets
                  /\ Candidates(m, CategoryOf(calls[i].fn)) = {}
                  /\ UserIsCreator(m) => Reads("getMarketFinancials", m) = 1
                                           /\ Reads("getFreeMarketInfo", m) >= 1
                  /\ Reads("getLPInfo", m) = 1
                  /\ \A t \in {"adminLiquidity", "prizePool", "lpRewards"} :
                        t # CategoryOf(calls[i].fn) =>
                            (Candidates(m, t) # {} <=> EligibleFor(t, m))
                  /\ \A later \in (m + 1)..(maxMarketId - 1) :
                        Reads("getMarketInfo", later) = 1

\* the getMarketFinancials read of market 4 of eleven failed: the market has
\* its lpRewards candidate, and the scan went on to market 10, whose prize
\* pool and financials it read
C27_Witness ==
    /\ ScanDone /\ CountAnswered(MaxMarkets)
    /\ {4, 6, 10} \subseteq ScannedMarkets /\ UserIsCreator(4)
    /\ \E i \in FailedCategoryReads :
          calls[i].fn = "getMarketFinancials" /\ calls[i].marketId = 4
    /\ Candidates(4, "adminLiquidity") = {} /\ Candidates(4, "lpRewards") # {}
    /\ Candidates(6, "prizePool") # {}
    /\ Reads("getMarketFinancials", 10) = 1

-----------------------------------------------------------------------------
(* C28: market id 0 *)

\* the request is a POST to the preview or to the analytics invalidation
\* whose body carries the market id n as a JSON number
PostsMarketNumber(n) ==
    /\ \/ IsPreview
       \/ request.route = "market/analytics" /\ EntryOf(request) = "POST"
    /\ request.marketId = JNumber(n)

\* C28: a preview POST or an analytics invalidation POST whose market id is
\* the JSON number 0 or 1 is never answered 400 "Market ID is required".
C28_IdZeroAccepted ==
    pc = "done" /\ (PostsMarketNumber(0) \/ PostsMarketNumber(1)) =>
        ~(response.status = 400 /\ response.error = "Market ID is required")

-----------------------------------------------------------------------------
(* C25: the price history, checked on the aggregator alone *)

\* the trades up to and including day date, and those of option A or B
TradesUpTo(date) == SelectSeq(events, LAMBDA ev : DateOf(ev.timestamp) <= date)
TradesOn(date) == SelectSeq(events, LAMBDA ev : DateOf(ev.timestamp) = date)
OfOption(list, isOptionA) == SelectSeq(list, LAMBDA ev : ev.isOptionA = isOptionA)

\* p thousandths is volume / total rounded to 3 decimals, a half rounded up
RoundedShare(p, volume, total) ==
    /\ 2 * total * p - total <= 2000 * volume
    /\ 2000 * volume < 2 * total * p + total

\* C25: for a non-empty list of trades the computed priceHistory has one
\* bucket for every UTC day with a trade and no other, the days ascending; a
\* bucket's volume and trades are the sum of the amounts and the number of
\* the trades of its day; when some volume was traded up to and including
\* its day, its optionA (optionB) is the option-A (option-B) volume of all
\* trades up to and including the day divided by the volume of all those
\* trades, rounded to 3 decimals.
C25_RunningShare ==
    pc = "done" /\ events # <<>> =>
        LET history == analytics.priceHistory IN
        /\ {history[i].date : i \in DOMAIN history}
              = {DateOf(events[k].timestamp) : k \in DOMAIN events}
        /\ \A i, j \in DOMAIN history : i < j => history[i].date < history[j].date
        /\ \A i \in DOMAIN history :
              LET bucket == history[i]
                  total == SumOf(TradesUpTo(bucket.date), "amount")
              IN  /\ bucket.volume = SumOf(TradesOn(bucket.date), "amount")
                  /\ bucket.trades = Len(TradesOn(bucket.date))
                  /\ total > 0 =>
                        /\ RoundedShare(bucket.optionA,
                              SumOf(OfOption(TradesUpTo(bucket.date), TRUE), "amount"), total)
                        /\ RoundedShare(bucket.optionB,
                              SumOf(OfOption(TradesUpTo(bucket.date), FALSE), "amount"), total)

\* 15 on option A on the first day, 1 on option B on the second: the second
\* bucket has 0.938 for option A, where the share of its day alone is 0
C25_Witness ==
    /\ pc = "done" /\ Len(events) = 3
    /\ Len(analytics.priceHistory) = 2
    /\ analytics.priceHistory[1].trades = 2 /\ analytics.priceHistory[1].volume = 15
    /\ analytics.priceHistory[2].volume = 1
    /\ analytics.priceHistory[2].optionA = 938 /\ analytics.priceHistory[2].optionB = 63
    /\ ~events[3].isOptionA

-----------------------------------------------------------------------------
(* C26: the 24h changes, checked on the aggregator alone *)

\* the quotient change equals num / den
RatioIs(change, num, den) == change.den # 0 /\ change.num * den = num * change.den

\* C26: in the analytics computed from a non-empty list of trades, with
\* fewer than two buckets priceChange24h and volumeChange24h are 0; otherwise
\* priceChange24h is the optionA of the last bucket minus that of the bucket
\* before it, and volumeChange24h is (last volume - previous volume) /
\* previous volume, or, when the previous volume is 0, 1 if the last volume is
\* positive and 0 if it is 0 too.
C26_Changes ==
    pc = "done" /\ events # <<>> =>
        LET prices == analytics.priceHistory
            volumes == analytics.volumeHistory
            n == Len(volumes)
        IN  /\ Len(prices) = n
            /\ n < 2 => /\ analytics.priceChange24h = 0
                        /\ RatioIs(analytics.volumeChange24h, 0, 1)
            /\ n >= 2 =>
                  /\ analytics.priceChange24h = prices[n].optionA - prices[n - 1].optionA
                  /\ IF volumes[n - 1].volume # 0
                     THEN RatioIs(analytics.volumeChange24h,
                                  volumes[n].volume - volumes[n - 1].volume,
                                  volumes[n - 1].volume)
                     ELSE RatioIs(analytics.volumeChange24h,
                                  IF volumes[n].volume > 0 THEN 1 ELSE 0, 1)

\* a day without volume followed by a day with 15 on option A: the price
\* rises by 0.5 and the volume change is 1
C26_Witness ==
    /\ pc = "done" /\ events # <<>>
    /\ Len(analytics.volumeHistory) = 2
    /\ analytics.volumeHistory[1].volume = 0 /\ analytics.volumeHistory[2].volume = 15
    /\ analytics.priceChange24h = 500
    /\ analytics.volumeChange24h = Ratio(1, 1)

-----------------------------------------------------------------------------
(* C29: the totals and the histories of a response *)

\* C29: an analytics GET answered from the events it fetched returns a
\* priceHistory and a volumeHistory with the same days in the same order, a
\* totalVolume that is the sum of volume over the returned volumeHistory and
\* a totalTrades that is the sum of trades over it, whatever the timeRange.
C29_TotalsMatchHistory ==
    /\ request.route = "market/analytics" /\ EntryOf(request) = "GET"
    /\ pc = "done" /\ response.status = 200 /\ events # <<>>
    => LET data == response.data IN
       /\ [i \in DOMAIN data.priceHistory |-> data.priceHistory[i].date]
             = [i \in DOMAIN data.volumeHistory |-> data.volumeHistory[i].date]
       /\ data.totalVolume = SumOf(data.volumeHistory, "volume")
       /\ data.totalTrades = SumOf(data.volumeHistory, "trades")

-----------------------------------------------------------------------------
(* C24: two requests that both recompute *)

\* both requests missed the cache, recomputed and returned
BothRecomputed ==
    pc = "race" /\ \A r \in 1..MaxRacers : racers[r].pc = "done" /\ racers[r].analytics # JNull

\* C24: two analytics GET requests for one cache key that both miss the
\* cache and recompute return the same payload, and the cache entry left
\* behind holds that payload, also when no trade was fetched and the
\* payload is the generated one.
C24_Converge ==
    BothRecomputed =>
        /\ \A r \in 1..MaxRacers : racers[r].response = racers[1].response
        /\ \A key \in DOMAIN analyticsCache :
              analyticsCache[key].data = racers[1].response.data

-----------------------------------------------------------------------------
(* C30: the claimed flag of ClaimWinningsButton *)

\* C30: hasAlreadyClaimed is true only when the contract has paid this
\* user's winnings of the market (a claimWinnings transaction succeeded, or
\* the contract rejected the claim as already claimed); once true it stays
\* true, and no claimWinnings write is issued while it is true.
C30_ClaimedFlag ==
    /\ [](pc = "button" /\ hasAlreadyClaimed => claimedOnChain)
    /\ [][hasAlreadyClaimed => hasAlreadyClaimed' /\ writes' = writes]_vars
====
